---- MODULE Spec2Model ----
(***************************************************************************)
(* Smart City Planner: the CityModel aggregate (grid, distribution,        *)
(* statistics, undo/redo history) of src/src/engine/CityModel.js.          *)
(*                                                                         *)
(* JavaScript objects that the code mutates in place (the grid matrix, the *)
(* distribution object, the stats object) live in a heap and are named by  *)
(* references, so that sharing and copying are different things in the     *)
(* model exactly as they are in the program.  Reference 0 stands for the   *)
(* JavaScript value undefined.                                             *)
(***************************************************************************)
EXTENDS Integers, Sequences, FiniteSets, TLC

VARIABLES city, heap, nextId, ret, edits, pc, sim, app

vars == <<city, heap, nextId, ret, edits, pc, sim, app>>

(***************************************************************************)
(* Bounds of the exploration.                                              *)
(***************************************************************************)
\* the number of operations that create zones or import a city
MaxEdits == 1
\* the number of snapshots the explored history holds
MaxHist == 3
\* the grid size handed to the constructor
GridSize == 8
\* the grid size and the number of saved mutations of the history-cap runs
CapGridSize == 1
MaxSavedMutations == 60

GridSizes == {GridSize}
\* coordinates handed to setZone and fillArea: below, inside and above the grid
Coords == {0 - 1, 0, GridSize}
\* zone types handed to setZone and fillArea; "park" is not in the catalog
TypeInputs == {"residential", "empty", "park"}
\* corners handed to fillArea
Corners == {<<0 - 1, 0 - 1>>, <<0, 1>>, <<1, 0>>}

(***************************************************************************)
(* Program constants.                                                      *)
(***************************************************************************)
HistoryLimit == 50
Undefined == 0

\* the keys of the distribution object
ZoneTypes ==
  {"empty", "residential", "commercial", "industrial", "green", "transit", "road"}

\* utils/constants.js ZONE_TYPES: per-type population and energy coefficients
ZONE_TYPES ==
  [ empty       |-> [population |-> 0,   energy |-> 0],
    residential |-> [population |-> 100, energy |-> 50],
    commercial  |-> [population |-> 20,  energy |-> 80],
    industrial  |-> [population |-> 10,  energy |-> 150],
    green       |-> [population |-> 0,   energy |-> 5],
    transit     |-> [population |-> 5,   energy |-> 30],
    road        |-> [population |-> 0,   energy |-> 10] ]

\* !ZONE_TYPES[type] is false exactly for the catalog's keys
InCatalog(type) == type \in DOMAIN ZONE_TYPES

(***************************************************************************)
(* Arithmetic helpers.                                                     *)
(***************************************************************************)
Min(a, b) == IF a < b THEN a ELSE b
Max(a, b) == IF a > b THEN a ELSE b

\* floor(p / q) for q > 0
FloorDiv(p, q) == IF p >= 0 THEN p \div q ELSE 0 - (((0 - p) + q - 1) \div q)

\* Math.round(p / q) for q > 0: halves go towards +infinity
Round(p, q) == FloorDiv(2 * p + q, 2 * q)

\* Math.min(100, Math.max(0, v))
Clamp(v) == Min(100, Max(0, v))

\* the count d holds for type t, 0 for a key d does not have
Count(d, t) == IF t \in DOMAIN d THEN d[t] ELSE 0

\* the sum of weight[t] * d[t] over the entries of the distribution d
Weighted(d, weight) ==
    weight["empty"] * Count(d, "empty")
  + weight["residential"] * Count(d, "residential")
  + weight["commercial"] * Count(d, "commercial")
  + weight["industrial"] * Count(d, "industrial")
  + weight["green"] * Count(d, "green")
  + weight["transit"] * Count(d, "transit")
  + weight["road"] * Count(d, "road")

(***************************************************************************)
(* The heap.                                                               *)
(***************************************************************************)
\* A heap is the sequence of its objects; a reference is a position in it.
\* the reference a new object of h gets
NewRef(h) == Len(h) + 1

\* h with the new object v stored under reference r = NewRef(h)
Store(h, r, v) == Append(h, v)

(***************************************************************************)
(* Statistics.                                                             *)
(***************************************************************************)
Ones ==
  [ empty |-> 1, residential |-> 1, commercial |-> 1, industrial |-> 1,
    green |-> 1, transit |-> 1, road |-> 1 ]

\* the catalog's population and energy coefficients per type
PopulationOf ==
  [ empty |-> ZONE_TYPES["empty"].population, residential |-> ZONE_TYPES["residential"].population,
    commercial |-> ZONE_TYPES["commercial"].population, industrial |-> ZONE_TYPES["industrial"].population,
    green |-> ZONE_TYPES["green"].population, transit |-> ZONE_TYPES["transit"].population,
    road |-> ZONE_TYPES["road"].population ]

EnergyOf ==
  [ empty |-> ZONE_TYPES["empty"].energy, residential |-> ZONE_TYPES["residential"].energy,
    commercial |-> ZONE_TYPES["commercial"].energy, industrial |-> ZONE_TYPES["industrial"].energy,
    green |-> ZONE_TYPES["green"].energy, transit |-> ZONE_TYPES["transit"].energy,
    road |-> ZONE_TYPES["road"].energy ]

\* utils/helpers.js calculateSustainabilityScore: a weighted composite of
\* the distribution, bounded to [0, 100]
calculateSustainabilityScore(d) ==
  LET total == Weighted(d, Ones)
      built == total - d["empty"]
  IN  IF built > 0
      THEN Clamp(Round(50 * built + 40 * d["green"] + 30 * d["transit"]
                         - 40 * d["industrial"], built))
      ELSE 50

\* calculateStats with a walkability green bonus of greenCoverage * 1 (for 0.5)
StatsOf_fullGreenBonus(gridSize, d) ==
  LET totalCells == gridSize * gridSize
      builtCells == totalCells - d["empty"]
      some == builtCells > 0
      b == IF some THEN builtCells ELSE 1
      green == IF some THEN d["green"] ELSE 0
      transit == IF some THEN d["transit"] ELSE 0
      residential == IF some THEN d["residential"] ELSE 0
      industrial == IF some THEN d["industrial"] ELSE 0
      greenCoverage == Round(green * 100, b)
      netCarbon == d["industrial"] * 10 + d["commercial"] * 5
                     - d["green"] * 8 - d["transit"] * 4
      maxCarbon == builtCells * 5
  IN  [ population |-> Weighted(d, PopulationOf),
        energyConsumption |-> Weighted(d, EnergyOf),
        greenCoverage |-> greenCoverage,
        transitScore |-> Clamp(Round(50 * b + 200 * transit - 30 * residential, b)),
        walkability |-> Clamp(Round(100 * b + 2 * greenCoverage * b + 100 * transit
                                      - 60 * industrial, 2 * b)),
        airQuality |-> Clamp(Round(300 * b + 4 * greenCoverage * b + 100 * transit
                                     - 250 * industrial, 5 * b)),
        energyEfficiency |-> Clamp(Round(600 * b + 3 * greenCoverage * b
                                           - 200 * industrial, 10 * b)),
        carbonFootprint |-> IF maxCarbon > 0 THEN Round(netCarbon * 100, maxCarbon) ELSE 0,
        sustainabilityScore |-> calculateSustainabilityScore(d) ]

\* calculateStats with the residential share added to the transit score
StatsOf_residentialBonus(gridSize, d) ==
  LET totalCells == gridSize * gridSize
      builtCells == totalCells - d["empty"]
      some == builtCells > 0
      b == IF some THEN builtCells ELSE 1
      green == IF some THEN d["green"] ELSE 0
      transit == IF some THEN d["transit"] ELSE 0
      residential == IF some THEN d["residential"] ELSE 0
      industrial == IF some THEN d["industrial"] ELSE 0
      greenCoverage == Round(green * 100, b)
      netCarbon == d["industrial"] * 10 + d["commercial"] * 5
                     - d["green"] * 8 - d["transit"] * 4
      maxCarbon == builtCells * 5
  IN  [ population |-> Weighted(d, PopulationOf),
        energyConsumption |-> Weighted(d, EnergyOf),
        greenCoverage |-> greenCoverage,
        transitScore |-> Clamp(Round(50 * b + 200 * transit + 30 * residential, b)),
        walkability |-> Clamp(Round(100 * b + greenCoverage * b + 100 * transit
                                      - 60 * industrial, 2 * b)),
        airQuality |-> Clamp(Round(300 * b + 4 * greenCoverage * b + 100 * transit
                                     - 250 * industrial, 5 * b)),
        energyEfficiency |-> Clamp(Round(600 * b + 3 * greenCoverage * b
                                           - 200 * industrial, 10 * b)),
        carbonFootprint |-> IF maxCarbon > 0 THEN Round(netCarbon * 100, maxCarbon) ELSE 0,
        sustainabilityScore |-> calculateSustainabilityScore(d) ]

\* calculateStats without Math.min(100, Math.max(0, ...)) on the transit score
StatsOf_noClamp(gridSize, d) ==
  LET totalCells == gridSize * gridSize
      builtCells == totalCells - d["empty"]
      some == builtCells > 0
      b == IF some THEN builtCells ELSE 1
      green == IF some THEN d["green"] ELSE 0
      transit == IF some THEN d["transit"] ELSE 0
      residential == IF some THEN d["residential"] ELSE 0
      industrial == IF some THEN d["industrial"] ELSE 0
      greenCoverage == Round(green * 100, b)
      netCarbon == d["industrial"] * 10 + d["commercial"] * 5
                     - d["green"] * 8 - d["transit"] * 4
      maxCarbon == builtCells * 5
  IN  [ population |-> Weighted(d, PopulationOf),
        energyConsumption |-> Weighted(d, EnergyOf),
        greenCoverage |-> greenCoverage,
        transitScore |-> Round(50 * b + 200 * transit - 30 * residential, b),
        walkability |-> Clamp(Round(100 * b + greenCoverage * b + 100 * transit
                                      - 60 * industrial, 2 * b)),
        airQuality |-> Clamp(Round(300 * b + 4 * greenCoverage * b + 100 * transit
                                     - 250 * industrial, 5 * b)),
        energyEfficiency |-> Clamp(Round(600 * b + 3 * greenCoverage * b
                                           - 200 * industrial, 10 * b)),
        carbonFootprint |-> IF maxCarbon > 0 THEN Round(netCarbon * 100, maxCarbon) ELSE 0,
        sustainabilityScore |-> calculateSustainabilityScore(d) ]

\* calculateStats: the stats record computed from gridSize and the
\* distribution d.  Quotients are exact rationals (the code's doubles agree
\* with them except for representation error at exact halves).
StatsOf(gridSize, d) ==
  LET totalCells == gridSize * gridSize
      builtCells == totalCells - d["empty"]
      some == builtCells > 0
      b == IF some THEN builtCells ELSE 1
      green == IF some THEN d["green"] ELSE 0
      transit == IF some THEN d["transit"] ELSE 0
      residential == IF some THEN d["residential"] ELSE 0
      industrial == IF some THEN d["industrial"] ELSE 0
      greenCoverage == Round(green * 100, b)
      netCarbon == d["industrial"] * 10 + d["commercial"] * 5
                     - d["green"] * 8 - d["transit"] * 4
      maxCarbon == builtCells * 5
  IN  [ population |-> Weighted(d, PopulationOf),
        energyConsumption |-> Weighted(d, EnergyOf),
        greenCoverage |-> greenCoverage,
        transitScore |-> Clamp(Round(50 * b + 200 * transit - 30 * residential, b)),
        walkability |-> Clamp(Round(100 * b + greenCoverage * b + 100 * transit
                                      - 60 * industrial, 2 * b)),
        airQuality |-> Clamp(Round(300 * b + 4 * greenCoverage * b + 100 * transit
                                     - 250 * industrial, 5 * b)),
        energyEfficiency |-> Clamp(Round(600 * b + 3 * greenCoverage * b
                                           - 200 * industrial, 10 * b)),
        carbonFootprint |-> IF maxCarbon > 0 THEN Round(netCarbon * 100, maxCarbon) ELSE 0,
        sustainabilityScore |-> calculateSustainabilityScore(d) ]

\* the literal the constructor assigns to this.stats
InitialStats ==
  [ population |-> 0, energyConsumption |-> 0, carbonFootprint |-> 0,
    greenCoverage |-> 0, transitScore |-> 50, walkability |-> 50,
    airQuality |-> 70, energyEfficiency |-> 60, sustainabilityScore |-> 50 ]

\* the literal assigned to this.distribution by the constructor and clear()
EmptyDistribution(n) ==
  [ empty |-> n * n, residential |-> 0, commercial |-> 0, industrial |-> 0,
    green |-> 0, transit |-> 0, road |-> 0 ]

\* A grid is the sequence of its rows and a row the sequence of its cells:
\* the code's grid[y][x] is g[y + 1][x + 1].
Cell(g, x, y) == g[y + 1][x + 1]

\* utils/helpers.js create2DArray filled with fresh empty zones, row by row
create2DArray(n, firstId) ==
  [y \in 1..n |->
     [x \in 1..n |-> [type |-> "empty", id |-> firstId + (y - 1) * n + (x - 1)]] \o <<>>] \o <<>>

(***************************************************************************)
(* A world w is the program state an operation works on:                   *)
(*   w.city    the CityModel's fields (grid, distribution, stats are       *)
(*             references into w.heap),                                    *)
(*   w.heap    the grid, distribution and stats objects,                   *)
(*   w.nextId  the number of identifiers generateId has handed out,        *)
(*   w.exc     whether the operation ended by raising,                     *)
(*   w.ret     the operation's return value.                               *)
(***************************************************************************)
Returning(w, v) == [w EXCEPT !.exc = FALSE, !.ret = v]
Raising(w) == [w EXCEPT !.exc = TRUE, !.ret = "exception"]

TheGrid(w) == w.heap.grid[w.city.grid]
TheDistribution(w) == w.heap.dist[w.city.distribution]
TheStats(w) == w.heap.stats[w.city.stats]

\* calculateStats(): raises on an undefined distribution before it has
\* written anything, otherwise overwrites every field of this.stats in place
calculateStats(w) ==
  IF w.city.distribution = Undefined THEN Raising(w)
  ELSE Returning([w EXCEPT !.heap.stats[w.city.stats] =
                     StatsOf(w.city.gridSize, TheDistribution(w))], "undefined")

\* whether this.grid[y][x] is an object
HasCell(w, x, y) ==
  /\ w.city.grid # Undefined
  /\ y + 1 \in DOMAIN TheGrid(w)
  /\ x + 1 \in DOMAIN TheGrid(w)[y + 1]

\* setZone without "this.distribution[oldType]--"
setZone_noDecrement(w, x, y, type) ==
  LET c == w.city IN
  IF x < 0 \/ x >= c.gridSize \/ y < 0 \/ y >= c.gridSize THEN Returning(w, "undefined")
  ELSE IF ~InCatalog(type) THEN Returning(w, "undefined")
  ELSE IF ~HasCell(w, x, y) THEN Raising(w)
  ELSE LET oldType == Cell(TheGrid(w), x, y).type IN
       IF oldType = type THEN Returning(w, "undefined")
       ELSE IF c.distribution = Undefined THEN Raising(w)
       ELSE LET d == TheDistribution(w)
                d2 == [d EXCEPT ![type] = @ + 1]
                w1 == [w EXCEPT !.heap.dist[c.distribution] = d2,
                                !.heap.grid[c.grid][y + 1][x + 1] = [type |-> type, id |-> w.nextId],
                                !.nextId = w.nextId + 1]
            IN  calculateStats(w1)

\* setZone without "this.distribution[type]++"
setZone_noIncrement(w, x, y, type) ==
  LET c == w.city IN
  IF x < 0 \/ x >= c.gridSize \/ y < 0 \/ y >= c.gridSize THEN Returning(w, "undefined")
  ELSE IF ~InCatalog(type) THEN Returning(w, "undefined")
  ELSE IF ~HasCell(w, x, y) THEN Raising(w)
  ELSE LET oldType == Cell(TheGrid(w), x, y).type IN
       IF oldType = type THEN Returning(w, "undefined")
       ELSE IF c.distribution = Undefined THEN Raising(w)
       ELSE LET d == TheDistribution(w)
                d1 == [d EXCEPT ![oldType] = @ - 1]
                w1 == [w EXCEPT !.heap.dist[c.distribution] = d1,
                                !.heap.grid[c.grid][y + 1][x + 1] = [type |-> type, id |-> w.nextId],
                                !.nextId = w.nextId + 1]
            IN  calculateStats(w1)

\* setZone whose range test is "x > this.gridSize" and "y > this.gridSize"
setZone_inclusiveBound(w, x, y, type) ==
  LET c == w.city IN
  IF x < 0 \/ x > c.gridSize \/ y < 0 \/ y > c.gridSize THEN Returning(w, "undefined")
  ELSE IF ~InCatalog(type) THEN Returning(w, "undefined")
  ELSE IF ~HasCell(w, x, y) THEN Raising(w)
  ELSE LET oldType == Cell(TheGrid(w), x, y).type IN
       IF oldType = type THEN Returning(w, "undefined")
       ELSE IF c.distribution = Undefined THEN Raising(w)
       ELSE LET d == TheDistribution(w)
                d1 == [d EXCEPT ![oldType] = @ - 1]
                d2 == [d1 EXCEPT ![type] = @ + 1]
                w1 == [w EXCEPT !.heap.dist[c.distribution] = d2,
                                !.heap.grid[c.grid][y + 1][x + 1] = [type |-> type, id |-> w.nextId],
                                !.nextId = w.nextId + 1]
            IN  calculateStats(w1)

\* setZone without "if (oldType === type) return"
setZone_noSameTypeCheck(w, x, y, type) ==
  LET c == w.city IN
  IF x < 0 \/ x >= c.gridSize \/ y < 0 \/ y >= c.gridSize THEN Returning(w, "undefined")
  ELSE IF ~InCatalog(type) THEN Returning(w, "undefined")
  ELSE IF ~HasCell(w, x, y) THEN Raising(w)
  ELSE LET oldType == Cell(TheGrid(w), x, y).type IN
       IF c.distribution = Undefined THEN Raising(w)
       ELSE LET d == TheDistribution(w)
                d1 == [d EXCEPT ![oldType] = @ - 1]
                d2 == [d1 EXCEPT ![type] = @ + 1]
                w1 == [w EXCEPT !.heap.dist[c.distribution] = d2,
                                !.heap.grid[c.grid][y + 1][x + 1] = [type |-> type, id |-> w.nextId],
                                !.nextId = w.nextId + 1]
            IN  calculateStats(w1)

\* setZone writing the new zone to this.grid[x][y]
setZone_swappedIndices(w, x, y, type) ==
  LET c == w.city IN
  IF x < 0 \/ x >= c.gridSize \/ y < 0 \/ y >= c.gridSize THEN Returning(w, "undefined")
  ELSE IF ~InCatalog(type) THEN Returning(w, "undefined")
  ELSE IF ~HasCell(w, x, y) THEN Raising(w)
  ELSE LET oldType == Cell(TheGrid(w), x, y).type IN
       IF oldType = type THEN Returning(w, "undefined")
       ELSE IF c.distribution = Undefined THEN Raising(w)
       ELSE LET d == TheDistribution(w)
                d1 == [d EXCEPT ![oldType] = @ - 1]
                d2 == [d1 EXCEPT ![type] = @ + 1]
                w1 == [w EXCEPT !.heap.dist[c.distribution] = d2,
                                !.heap.grid[c.grid][x + 1][y + 1] = [type |-> type, id |-> w.nextId],
                                !.nextId = w.nextId + 1]
            IN  calculateStats(w1)

setZone(w, x, y, type) ==
  LET c == w.city IN
  IF x < 0 \/ x >= c.gridSize \/ y < 0 \/ y >= c.gridSize THEN Returning(w, "undefined")
  ELSE IF ~InCatalog(type) THEN Returning(w, "undefined")
  ELSE IF ~HasCell(w, x, y) THEN Raising(w)
  ELSE LET oldType == Cell(TheGrid(w), x, y).type IN
       IF oldType = type THEN Returning(w, "undefined")
       ELSE IF c.distribution = Undefined THEN Raising(w)
       ELSE LET d == TheDistribution(w)
                d1 == [d EXCEPT ![oldType] = @ - 1]
                d2 == [d1 EXCEPT ![type] = @ + 1]
                w1 == [w EXCEPT !.heap.dist[c.distribution] = d2,
                                !.heap.grid[c.grid][y + 1][x + 1] = [type |-> type, id |-> w.nextId],
                                !.nextId = w.nextId + 1]
            IN  calculateStats(w1)

\* {...object}: the own properties of the object named by r, none for undefined
Spread(h, r) == IF r = Undefined THEN [t \in {} |-> 0] ELSE h[r]

\* the snapshot object saveState() builds: utils/helpers.js deepClone of the
\* grid and spread copies of distribution and stats, each a new object
\* the snapshot keeping this.grid itself instead of deepClone(this.grid)
NewSnapshot_sharesGrid(w) ==
  LET d == NewRef(w.heap.dist)
      s == NewRef(w.heap.stats)
  IN  [ snap |-> [grid |-> w.city.grid, distribution |-> d, stats |-> s],
        heap |-> [grid |-> w.heap.grid,
                  dist |-> Store(w.heap.dist, d, Spread(w.heap.dist, w.city.distribution)),
                  stats |-> Store(w.heap.stats, s, TheStats(w))] ]

NewSnapshot(w) ==
  LET g == NewRef(w.heap.grid)
      d == NewRef(w.heap.dist)
      s == NewRef(w.heap.stats)
  IN  [ snap |-> [grid |-> g, distribution |-> d, stats |-> s],
        heap |-> [grid |-> Store(w.heap.grid, g, TheGrid(w)),
                  dist |-> Store(w.heap.dist, d, Spread(w.heap.dist, w.city.distribution)),
                  stats |-> Store(w.heap.stats, s, TheStats(w))] ]

\* saveState without the slice that drops the snapshots beyond the cursor
saveState_noSlice(w) ==
  LET c == w.city IN
  IF c.grid = Undefined THEN Raising(w)
  ELSE LET n == NewSnapshot(w)
           pushed == Append(c.history, n.snap)
           over == Len(pushed) > HistoryLimit
       IN  Returning([w EXCEPT !.heap = n.heap,
                               !.city.history = IF over THEN Tail(pushed) ELSE pushed,
                               !.city.historyIndex =
                                  IF over THEN Len(pushed) - 2 ELSE Len(pushed) - 1],
                     "undefined")

\* saveState without the shift that enforces the limit
saveState_noShift(w) ==
  LET c == w.city
      sliced == SubSeq(c.history, 1, c.historyIndex + 1)
  IN  IF c.grid = Undefined
      THEN Raising([w EXCEPT !.city.history = sliced])
      ELSE LET n == NewSnapshot(w)
               pushed == Append(sliced, n.snap)
           IN  Returning([w EXCEPT !.heap = n.heap,
                                   !.city.history = pushed,
                                   !.city.historyIndex = Len(pushed) - 1],
                         "undefined")

saveState(w) ==
  LET c == w.city
      sliced == SubSeq(c.history, 1, c.historyIndex + 1)
  IN  IF c.grid = Undefined
      THEN \* deepClone(undefined) raises after the slice was assigned
           Raising([w EXCEPT !.city.history = sliced])
      ELSE LET n == NewSnapshot(w)
               pushed == Append(sliced, n.snap)
               over == Len(pushed) > HistoryLimit
           IN  Returning([w EXCEPT !.heap = n.heap,
                                   !.city.history = IF over THEN Tail(pushed) ELSE pushed,
                                   !.city.historyIndex =
                                      IF over THEN Len(pushed) - 2 ELSE Len(pushed) - 1],
                         "undefined")

\* the assignments undo() and redo() share: the working grid, distribution
\* and stats become fresh copies of the snapshot at the cursor
Restore(w, index) ==
  LET state == w.city.history[index + 1]
      g == NewRef(w.heap.grid)
      d == NewRef(w.heap.dist)
      s == NewRef(w.heap.stats)
  IN  [w EXCEPT !.city.historyIndex = index,
                !.city.grid = g,
                !.city.distribution = d,
                !.city.stats = s,
                !.heap = [grid |-> Store(w.heap.grid, g, w.heap.grid[state.grid]),
                          dist |-> Store(w.heap.dist, d, Spread(w.heap.dist, state.distribution)),
                          stats |-> Store(w.heap.stats, s, w.heap.stats[state.stats])]]

\* undo reading history[historyIndex] before decrementing the cursor
undo_postDecrement(w) ==
  IF w.city.historyIndex <= 0 THEN Returning(w, "false")
  ELSE Returning([Restore(w, w.city.historyIndex) EXCEPT
                    !.city.historyIndex = w.city.historyIndex - 1], "true")

\* undo guarded by "historyIndex < 0": at index 0 the cursor is decremented
\* and reading the missing snapshot raises
undo_belowZero(w) ==
  IF w.city.historyIndex < 0 THEN Returning(w, "false")
  ELSE IF w.city.historyIndex = 0
       THEN Raising([w EXCEPT !.city.historyIndex = 0 - 1])
       ELSE Returning(Restore(w, w.city.historyIndex - 1), "true")

\* undo guarded by "historyIndex <= 1"
undo_stopsAtOne(w) ==
  IF w.city.historyIndex <= 1 THEN Returning(w, "false")
  ELSE Returning(Restore(w, w.city.historyIndex - 1), "true")

undo(w) ==
  IF w.city.historyIndex <= 0 THEN Returning(w, "false")
  ELSE Returning(Restore(w, w.city.historyIndex - 1), "true")

\* redo without "this.stats = { ...state.stats }"
redo_keepsStats(w) ==
  IF w.city.historyIndex >= Len(w.city.history) - 1 THEN Returning(w, "false")
  ELSE LET r == Restore(w, w.city.historyIndex + 1) IN
       Returning([r EXCEPT !.heap.stats[r.city.stats] = TheStats(w)], "true")

redo(w) ==
  IF w.city.historyIndex >= Len(w.city.history) - 1 THEN Returning(w, "false")
  ELSE Returning(Restore(w, w.city.historyIndex + 1), "true")

\* clear() that replaces the grid and keeps the distribution
clear_keepsDistribution(w) ==
  LET n == w.city.gridSize
      g == NewRef(w.heap.grid)
      w1 == [w EXCEPT !.city.grid = g,
                      !.heap.grid = Store(w.heap.grid, g, create2DArray(n, w.nextId)),
                      !.nextId = w.nextId + n * n]
  IN  calculateStats(w1)

\* clear() that also pushes a snapshot of the cleared city
clear_savesState(w) ==
  LET n == w.city.gridSize
      g == NewRef(w.heap.grid)
      d == NewRef(w.heap.dist)
      w1 == [w EXCEPT !.city.grid = g,
                      !.city.distribution = d,
                      !.heap.grid = Store(w.heap.grid, g, create2DArray(n, w.nextId)),
                      !.heap.dist = Store(w.heap.dist, d, EmptyDistribution(n)),
                      !.nextId = w.nextId + n * n]
  IN  saveState(calculateStats(w1))

clear(w) ==
  LET n == w.city.gridSize
      g == NewRef(w.heap.grid)
      d == NewRef(w.heap.dist)
      w1 == [w EXCEPT !.city.grid = g,
                      !.city.distribution = d,
                      !.heap.grid = Store(w.heap.grid, g, create2DArray(n, w.nextId)),
                      !.heap.dist = Store(w.heap.dist, d, EmptyDistribution(n)),
                      !.nextId = w.nextId + n * n]
  IN  calculateStats(w1)

\* setZone applied to the cells of a sequence in order; a raise ends the run.
\* (The sequence is split in halves to keep the evaluation shallow.)
RECURSIVE SetZones(_, _, _)
SetZones(w, cells, type) ==
  IF w.exc \/ Len(cells) = 0 THEN w
  ELSE IF Len(cells) = 1 THEN setZone(w, cells[1][1], cells[1][2], type)
  ELSE LET mid == Len(cells) \div 2
           w1 == SetZones(w, SubSeq(cells, 1, mid), type)
       IN  IF w1.exc THEN w1 ELSE SetZones(w1, SubSeq(cells, mid + 1, Len(cells)), type)

\* the cells (x, y) of rows minY..maxY, each row from minX to maxX
RowMajor(minX, maxX, minY, maxY) ==
  LET width == maxX - minX + 1
      height == maxY - minY + 1
  IN  [k \in 1..(width * height) |->
         <<minX + ((k - 1) % width), minY + ((k - 1) \div width)>>] \o <<>>

\* fillArea whose loops stop before maxX and maxY ("<" instead of "<=")
fillArea_exclusiveMax(w, x1, y1, x2, y2, type) ==
  LET minX == Min(x1, x2)
      maxX == Max(x1, x2) - 1
      minY == Min(y1, y2)
      maxY == Max(y1, y2) - 1
      w1 == SetZones(Returning(w, "undefined"), RowMajor(minX, maxX, minY, maxY), type)
  IN  IF w1.exc THEN w1 ELSE saveState(w1)

fillArea(w, x1, y1, x2, y2, type) ==
  LET minX == Min(x1, x2)
      maxX == Max(x1, x2)
      minY == Min(y1, y2)
      maxY == Max(y1, y2)
      w1 == SetZones(Returning(w, "undefined"), RowMajor(minX, maxX, minY, maxY), type)
  IN  IF w1.exc THEN w1 ELSE saveState(w1)

(***************************************************************************)
(* Export and import.  A payload is a record whose absent fields hold the  *)
(* falsy values 0 and ""; the payload null is NullData.  Its grid and      *)
(* distribution are references: the objects themselves are in the heap.    *)
(***************************************************************************)
\* utils/constants.js CITY_SIZES: the size classes and the grid size of each
CITY_SIZES == [small |-> [grid |-> 40], medium |-> [grid |-> 80], large |-> [grid |-> 120]]

NullData ==
  [ isNull |-> TRUE, id |-> 0, name |-> "", size |-> "", gridSize |-> 0,
    grid |-> Undefined, distribution |-> Undefined ]

\* exportData(): the live grid and distribution objects, not copies
exportData(w) ==
  [ isNull |-> FALSE, id |-> w.city.id, name |-> w.city.name, size |-> w.city.size,
    gridSize |-> w.city.gridSize, grid |-> w.city.grid,
    distribution |-> w.city.distribution ]

\* importData(data): every raise inside the try block is caught and turned
\* into the result false; what was assigned before the raise stays assigned
importData(w, data) ==
  IF data.isNull THEN Returning(w, "false")
  ELSE
    LET fresh == data.id = 0
        w1 == [w EXCEPT !.city.id = IF fresh THEN w.nextId ELSE data.id,
                        !.nextId = IF fresh THEN w.nextId + 1 ELSE w.nextId,
                        !.city.name = IF data.name = "" THEN "Imported City" ELSE data.name,
                        !.city.size = IF data.size = "" THEN "medium" ELSE data.size]
    IN  IF data.gridSize = 0 /\ w1.city.size \notin DOMAIN CITY_SIZES
        THEN \* CITY_SIZES[this.size] is undefined: reading .grid raises
             Returning(w1, "false")
        ELSE LET w2 == [w1 EXCEPT !.city.gridSize = IF data.gridSize = 0
                                                     THEN CITY_SIZES[w1.city.size].grid
                                                     ELSE data.gridSize,
                                  !.city.grid = data.grid,
                                  !.city.distribution = data.distribution]
                 w3 == calculateStats(w2)
                 w4 == saveState(w3)
             IN  IF w3.exc THEN Returning(w3, "false")
                 ELSE IF w4.exc THEN Returning(w4, "false")
                 ELSE Returning(w4, "true")

(***************************************************************************)
(* Procedural layout.  Ratios and random draws are in thousandths: a ratio *)
(* of 350 is 0.35 and a draw of 999 is Math.random() = 0.999.              *)
(***************************************************************************)
\* the values the loop "for (v = spacing; v < n; v += spacing)" visits;
\* the loop does not end when spacing is 0
Stops(spacing, n) == [k \in 1..((n - 1) \div spacing) |-> k * spacing] \o <<>>

RoadSpacing(n) == n \div 8
HubSpacing(n) == n \div 4

\* the setZone calls of generateRoadNetwork() in order: the horizontal roads,
\* the vertical roads, then the five runs of the diagonal boulevard
RoadCells(n) ==
  LET stops == Stops(RoadSpacing(n), n)
      center == n \div 2
      horizontal == [k \in 1..(Len(stops) * n) |->
                       <<(k - 1) % n, stops[((k - 1) \div n) + 1]>>] \o <<>>
      vertical == [k \in 1..(Len(stops) * n) |->
                     <<stops[((k - 1) \div n) + 1], (k - 1) % n>>] \o <<>>
      \* i = -2..2 outer, j = 0..n-1 inner, offset = Math.round(j - center)
      diagonal == [k \in 1..(5 * n) |->
                     LET i == ((k - 1) \div n) - 2
                         j == (k - 1) % n
                         offset == j - center
                     IN  <<j, center + offset + i>>] \o <<>>
      InGrid(cell) == cell[2] >= 0 /\ cell[2] < n
  IN  horizontal \o vertical \o SelectSeq(diagonal, InGrid)

generateRoadNetwork(w) ==
  SetZones(Returning(w, "undefined"), RoadCells(w.city.gridSize), "road")

\* the setZone calls of addTransitHubs() in order: a 2x2 block per stop pair
HubCells(n) ==
  LET stops == Stops(HubSpacing(n), n)
      m == Len(stops)
  IN  [k \in 1..(4 * m * m) |->
         LET hub == (k - 1) \div 4
             y == stops[(hub \div m) + 1]
             x == stops[(hub % m) + 1]
             corner == (k - 1) % 4
         IN  <<x + (corner % 2), y + (corner \div 2)>>] \o <<>>

addTransitHubs(w) ==
  SetZones(Returning(w, "undefined"), HubCells(w.city.gridSize), "transit")

\* the ring loop zoning the second band of the middle ring industrial
RingType_industrialInMiddleRing(n, x, y, rand, params) ==
  LET center == n \div 2
      \* normalizedDist > t/100, with maxDist = center * 1.4, squared
      distSq == (x - center) * (x - center) + (y - center) * (y - center)
      Beyond(t) == 10000 * distSq > (t * 14 * center) * (t * 14 * center)
                   \/ (center = 0 /\ distSq > 0)
      res == params.residentialRatio
      com == params.commercialRatio
      grn == params.greenRatio
      tra == params.transitRatio
  IN  IF Beyond(9)
      THEN IF rand < 400 THEN "green"
           ELSE IF rand < 600 THEN "industrial" ELSE "empty"
      ELSE IF Beyond(6)
      THEN IF 2 * rand < 3 * res THEN "residential"
           ELSE IF 2 * rand < 3 * res + 2 * grn THEN "industrial" ELSE "empty"
      ELSE IF Beyond(3)
      THEN IF rand < res THEN "residential"
           ELSE IF rand < res + com THEN "commercial"
           ELSE IF 2 * rand < 2 * res + 2 * com + grn THEN "green" ELSE "empty"
      ELSE IF rand < 2 * com THEN "commercial"
           ELSE IF rand < 2 * com + 2 * tra THEN "transit"
           ELSE IF 10 * rand < 20 * com + 20 * tra + 3 * grn THEN "green" ELSE "empty"

\* the ring loop with the outer ring's industrial band as wide as
\* industrialRatio * 2 (for the constant 0.2)
RingType_industrialRatio(n, x, y, rand, params) ==
  LET center == n \div 2
      \* normalizedDist > t/100, with maxDist = center * 1.4, squared
      distSq == (x - center) * (x - center) + (y - center) * (y - center)
      Beyond(t) == 10000 * distSq > (t * 14 * center) * (t * 14 * center)
                   \/ (center = 0 /\ distSq > 0)
      res == params.residentialRatio
      com == params.commercialRatio
      grn == params.greenRatio
      tra == params.transitRatio
  IN  IF Beyond(9)
      THEN IF rand < 400 THEN "green"
           ELSE IF rand < 400 + 2 * params.industrialRatio THEN "industrial" ELSE "empty"
      ELSE IF Beyond(6)
      THEN IF 2 * rand < 3 * res THEN "residential"
           ELSE IF 2 * rand < 3 * res + 2 * grn THEN "green" ELSE "empty"
      ELSE IF Beyond(3)
      THEN IF rand < res THEN "residential"
           ELSE IF rand < res + com THEN "commercial"
           ELSE IF 2 * rand < 2 * res + 2 * com + grn THEN "green" ELSE "empty"
      ELSE IF rand < 2 * com THEN "commercial"
           ELSE IF rand < 2 * com + 2 * tra THEN "transit"
           ELSE IF 10 * rand < 20 * com + 20 * tra + 3 * grn THEN "green" ELSE "empty"

\* the zone type the ring loop picks for cell (x, y) from the draw rand
RingType(n, x, y, rand, params) ==
  LET center == n \div 2
      \* normalizedDist > t/100, with maxDist = center * 1.4, squared
      distSq == (x - center) * (x - center) + (y - center) * (y - center)
      Beyond(t) == 10000 * distSq > (t * 14 * center) * (t * 14 * center)
                   \/ (center = 0 /\ distSq > 0)
      res == params.residentialRatio
      com == params.commercialRatio
      grn == params.greenRatio
      tra == params.transitRatio
  IN  IF Beyond(9)
      THEN IF rand < 400 THEN "green"
           ELSE IF rand < 600 THEN "industrial" ELSE "empty"
      ELSE IF Beyond(6)
      THEN IF 2 * rand < 3 * res THEN "residential"
           ELSE IF 2 * rand < 3 * res + 2 * grn THEN "green" ELSE "empty"
      ELSE IF Beyond(3)
      THEN IF rand < res THEN "residential"
           ELSE IF rand < res + com THEN "commercial"
           ELSE IF 2 * rand < 2 * res + 2 * com + grn THEN "green" ELSE "empty"
      ELSE IF rand < 2 * com THEN "commercial"
           ELSE IF rand < 2 * com + 2 * tra THEN "transit"
           ELSE IF 10 * rand < 20 * com + 20 * tra + 3 * grn THEN "green" ELSE "empty"

\* one pass of the ring loop's body, for cell number k (row by row);
\* rnd[y + 1][x + 1] is the draw made for cell (x, y)
RingStep(w, k, params, rnd) ==
  LET n == w.city.gridSize
      x == k % n
      y == k \div n
  IN  IF Cell(TheGrid(w), x, y).type # "empty" THEN Returning(w, "undefined")
      ELSE LET zoneType == RingType(n, x, y, rnd[y + 1][x + 1], params) IN
           IF zoneType # "empty" THEN setZone(w, x, y, zoneType)
           ELSE Returning(w, "undefined")

\* the ring loop of generateLayout over the cells numbered lo..hi, in order
\* (the range is split in halves to keep the evaluation shallow)
RECURSIVE RingLoop(_, _, _, _, _)
RingLoop(w, lo, hi, params, rnd) ==
  IF lo > hi THEN w
  ELSE IF lo = hi THEN RingStep(w, lo, params, rnd)
  ELSE LET mid == (lo + hi) \div 2
           w1 == RingLoop(w, lo, mid, params, rnd)
       IN  IF w1.exc THEN w1 ELSE RingLoop(w1, mid + 1, hi, params, rnd)

\* generateLayout(params); it does not return when a spacing is 0
Terminates(n) == RoadSpacing(n) > 0 /\ HubSpacing(n) > 0

generateLayout(w, params, rnd) ==
  LET w1 == clear(w)
      w2 == generateRoadNetwork(w1)
      w3 == RingLoop(w2, 0, w.city.gridSize * w.city.gridSize - 1, params, rnd)
      w4 == addTransitHubs(w3)
      w5 == calculateStats(w4)
  IN  IF w2.exc THEN w2
      ELSE IF w3.exc THEN w3
      ELSE IF w4.exc THEN w4
      ELSE IF w5.exc THEN w5
      ELSE saveState(w5)

(***************************************************************************)
(* References are names only: after every operation the objects that the   *)
(* city no longer reaches are dropped and the others are renumbered in the *)
(* order in which the city reaches them.                                   *)
(***************************************************************************)
\* For the references roots of a heap h, in the order the city reaches
\* them: new[r] is the new name of reference r (0: dropped) and old[n] the
\* reference renamed to n.
Renaming(h, roots) ==
  LET live == {roots[i] : i \in 1..Len(roots)} \ {Undefined}
      first == [r \in 1..Len(h) |->
                  IF r \in live
                  THEN CHOOSE i \in 1..Len(roots) :
                         roots[i] = r /\ \A j \in 1..(i - 1) : roots[j] # r
                  ELSE 0] \o <<>>
      new == [r \in 1..Len(h) |->
                IF r \in live
                THEN Cardinality({s \in live : first[s] <= first[r]})
                ELSE 0] \o <<>>
      old == [n \in 1..Cardinality(live) |-> CHOOSE r \in live : new[r] = n] \o <<>>
  IN  [new |-> new, old |-> old]

\* the new name of reference r
Renamed(m, r) == IF r = Undefined THEN Undefined ELSE m.new[r]

\* the heap h with the renamed objects only
Compacted(h, m) == [n \in 1..Len(m.old) |-> h[m.old[n]]] \o <<>>

Collect(w) ==
  LET c == w.city
      hist == c.history
      mg == Renaming(w.heap.grid,
                     <<c.grid>> \o [i \in 1..Len(hist) |-> hist[i].grid])
      md == Renaming(w.heap.dist,
                     <<c.distribution>> \o [i \in 1..Len(hist) |-> hist[i].distribution])
      ms == Renaming(w.heap.stats,
                     <<c.stats>> \o [i \in 1..Len(hist) |-> hist[i].stats])
  IN  [w EXCEPT !.city.grid = Renamed(mg, c.grid),
                !.city.distribution = Renamed(md, c.distribution),
                !.city.stats = Renamed(ms, c.stats),
                !.city.history = [i \in 1..Len(hist) |->
                                    [grid |-> Renamed(mg, hist[i].grid),
                                     distribution |-> Renamed(md, hist[i].distribution),
                                     stats |-> Renamed(ms, hist[i].stats)]] \o <<>>,
                !.heap = [grid |-> Compacted(w.heap.grid, mg),
                          dist |-> Compacted(w.heap.dist, md),
                          stats |-> Compacted(w.heap.stats, ms)]]

(***************************************************************************)
(* Construction.                                                           *)
(***************************************************************************)
\* the constructor's body without its closing this.saveState()
Constructed_noSaveState(size, gridSize) ==
  LET w0 == [ city |-> [ id |-> 1,
                         name |-> "New City",
                         size |-> size,
                         gridSize |-> gridSize,
                         grid |-> 1,
                         distribution |-> 1,
                         stats |-> 1,
                         history |-> <<>>,
                         historyIndex |-> 0 - 1 ],
              heap |-> [ grid |-> <<create2DArray(gridSize, 2)>>,
                         dist |-> <<EmptyDistribution(gridSize)>>,
                         stats |-> <<InitialStats>> ],
              nextId |-> 2 + gridSize * gridSize,
              exc |-> FALSE,
              ret |-> "undefined" ]
  IN  w0

\* the constructor's body once size and gridSize are settled
Constructed(size, gridSize) ==
  LET w0 == [ city |-> [ id |-> 1,
                         name |-> "New City",
                         size |-> size,
                         gridSize |-> gridSize,
                         grid |-> 1,
                         distribution |-> 1,
                         stats |-> 1,
                         history |-> <<>>,
                         historyIndex |-> 0 - 1 ],
              heap |-> [ grid |-> <<create2DArray(gridSize, 2)>>,
                         dist |-> <<EmptyDistribution(gridSize)>>,
                         stats |-> <<InitialStats>> ],
              nextId |-> 2 + gridSize * gridSize,
              exc |-> FALSE,
              ret |-> "undefined" ]
  IN  saveState(w0)

\* new CityModel(size) for a numeric size
Constructor(size) ==
  Constructed(IF size <= 60 THEN "small" ELSE IF size <= 100 THEN "medium" ELSE "large",
              size)

\* new CityModel(size) for a size key: CITY_SIZES[size] || CITY_SIZES.medium
ConstructorOfKey(size) ==
  LET sizeConfig == IF size \in DOMAIN CITY_SIZES THEN CITY_SIZES[size]
                    ELSE CITY_SIZES["medium"]
  IN  Constructed(size, sizeConfig.grid)

(***************************************************************************)
(* The temporal simulator and the application's simulation controls.  The  *)
(* application (SmartCityApp) holds one city and one simulator; an         *)
(* application state a is [w |-> the world, sim |-> the simulator].  The   *)
(* simulator keeps a baseline (none until saveBaseline()), the simulated   *)
(* year and the active scenario (none until one is applied).  A projection *)
(* restores the baseline and zones empty cells, in row-major order, with   *)
(* the Grid Model's setZone: residential and commercial growth and the     *)
(* scenario's zones, all in proportion to the years since the baseline.    *)
(***************************************************************************)
\* the year the time slider starts from and resetSimulation() returns to
BaselineYear == 2025
\* the year at which playSimulation() stops
FinalYear == 2050

\* the years setTargetYear accepts
SupportedYears == BaselineYear..FinalYear

\* utils/constants.js SCENARIOS: named bundles of ratio deltas; each is
\* taken to zone perDecade cells of one type every ten simulated years
SCENARIOS ==
  [ green_initiative |-> [name |-> "Green Initiative", type |-> "green", perDecade |-> 4],
    transit_expansion |-> [name |-> "Transit Expansion", type |-> "transit", perDecade |-> 2] ]

NoScenario == [name |-> "none", type |-> "empty", perDecade |-> 0]

\* cells zoned residential and commercial every ten simulated years
ResidentialPerDecade == 5
CommercialPerDecade == 2

\* new Simulator(city)
NewSimulator == [baseline |-> <<>>, year |-> BaselineYear, scenario |-> NoScenario]

\* the cells of grid g that are empty, in row-major order
EmptyCells(g) ==
  LET IsEmpty(p) == Cell(g, p[1], p[2]).type = "empty"
  IN  SelectSeq(RowMajor(0, Len(g) - 1, 0, Len(g) - 1), IsEmpty)

\* the first k entries of sequence q (all of them when it has fewer)
Taken(q, k) == SubSeq(q, 1, Min(Len(q), Max(k, 0)))
\* sequence q without its first k entries
Dropped(q, k) == SubSeq(q, Min(Len(q), Max(k, 0)) + 1, Len(q))

\* the city of world w made the projection of the baseline base over
\* years years under scenario: the projection of a later year starts from
\* the current city instead of the baseline
Projected_fromCurrentCity(w, base, years, scenario) ==
  LET free == EmptyCells(TheGrid(w))
      res == (ResidentialPerDecade * years) \div 10
      com == (CommercialPerDecade * years) \div 10
      pol == (scenario.perDecade * years) \div 10
      w2 == SetZones(w, Taken(free, res), "residential")
      w3 == SetZones(w2, Taken(Dropped(free, res), com), "commercial")
      w4 == SetZones(w3, Taken(Dropped(free, res + com), pol), scenario.type)
  IN  calculateStats(w4)

\* the city of world w made the projection of the baseline base over
\* years years under scenario
Projected(w, base, years, scenario) ==
  LET g == NewRef(w.heap.grid)
      d == NewRef(w.heap.dist)
      t == NewRef(w.heap.stats)
      w1 == [w EXCEPT !.city.grid = g,
                      !.city.distribution = d,
                      !.city.stats = t,
                      !.heap.grid = Store(w.heap.grid, g, base.grid),
                      !.heap.dist = Store(w.heap.dist, d, base.distribution),
                      !.heap.stats = Store(w.heap.stats, t, base.stats)]
      free == EmptyCells(base.grid)
      res == (ResidentialPerDecade * years) \div 10
      com == (CommercialPerDecade * years) \div 10
      pol == (scenario.perDecade * years) \div 10
      w2 == SetZones(w1, Taken(free, res), "residential")
      w3 == SetZones(w2, Taken(Dropped(free, res), com), "commercial")
      w4 == SetZones(w3, Taken(Dropped(free, res + com), pol), scenario.type)
  IN  calculateStats(w4)

\* simulator.saveBaseline()
Simulator_saveBaseline(a) ==
  [a EXCEPT !.sim.baseline = << [grid |-> TheGrid(a.w),
                                 distribution |-> TheDistribution(a.w),
                                 stats |-> TheStats(a.w)] >>,
            !.w = Returning(a.w, "undefined")]

\* simulator.applyScenario(scenario)
Simulator_applyScenario(a, scenario) ==
  [a EXCEPT !.sim.scenario = scenario,
            !.w = Returning(Projected(a.w, a.sim.baseline[1],
                                      a.sim.year - BaselineYear, scenario),
                            "undefined")]

\* simulator.setTargetYear(year)
Simulator_setTargetYear(a, year) ==
  IF year \notin SupportedYears THEN [a EXCEPT !.w = Returning(a.w, "false")]
  ELSE [a EXCEPT !.sim.year = year,
                 !.w = Returning(Projected(a.w, a.sim.baseline[1],
                                           year - BaselineYear, a.sim.scenario),
                                 "true")]

\* simulator.reset()
Simulator_reset(a) ==
  [a EXCEPT !.sim.year = BaselineYear,
            !.sim.scenario = NoScenario,
            !.w = Returning(Projected(a.w, a.sim.baseline[1], 0, NoScenario),
                            "undefined")]

\* SmartCityApp.applyScenario(scenarioId) that applies the first scenario
\* of the catalog when the identifier is unknown
applyScenario_defaultScenario(a, scenarioId) ==
  IF scenarioId \notin DOMAIN SCENARIOS
  THEN Simulator_applyScenario(a, SCENARIOS["green_initiative"])
  ELSE Simulator_applyScenario(a, SCENARIOS[scenarioId])

\* SmartCityApp.applyScenario(scenarioId)
applyScenario(a, scenarioId) ==
  IF scenarioId \notin DOMAIN SCENARIOS THEN [a EXCEPT !.w = Returning(a.w, "undefined")]
  ELSE Simulator_applyScenario(a, SCENARIOS[scenarioId])

\* the time slider's input handler, the slider's value being value
timeSliderInput(a, value) ==
  Simulator_setTargetYear([a EXCEPT !.app.slider = value], value)

\* SmartCityApp.resetSimulation()
resetSimulation(a) ==
  Simulator_reset([a EXCEPT !.app.isSimulating = FALSE, !.app.slider = BaselineYear])

\* SmartCityApp.loadSampleCity(sampleId) for a sample of the city's size:
\* generateLayout(sample.ratios), then simulator.saveBaseline()
loadSampleCity(a, ratios, rnd) ==
  LET w1 == generateLayout(a.w, ratios, rnd)
  IN  IF w1.exc THEN [a EXCEPT !.w = Returning(w1, "undefined")]
      ELSE Simulator_saveBaseline([a EXCEPT !.w = w1])

(***************************************************************************)
(* The renderer's transit routes.  A hub is a cell <<x, y>>; an edge is    *)
(* [i, j, dist, idx] with i < j positions in the sequence of hubs (from 1; *)
(* the code counts from 0), idx its position in the unsorted edge array.   *)
(* dist holds the square of the code's Math.sqrt(dx^2 + dy^2): the code    *)
(* only compares distances, and the square root keeps their order.         *)
(***************************************************************************)
\* the cells of type transit of grid g, row by row
TransitHubs(g) ==
  LET IsTransit(p) == Cell(g, p[1], p[2]).type = "transit"
  IN  SelectSeq(RowMajor(0, Len(g) - 1, 0, Len(g) - 1), IsTransit)

\* the edge array: every pair of hubs i < j, for i ascending and then j
HubEdges(hubs) ==
  LET n == Len(hubs)
      IsPair(p) == p[1] < p[2]
      pairs == SelectSeq([k \in 1..(n * n) |-> <<((k - 1) \div n) + 1, ((k - 1) % n) + 1>>] \o <<>>,
                         IsPair)
  IN  [k \in 1..Len(pairs) |->
         LET hub1 == hubs[pairs[k][1]]
             hub2 == hubs[pairs[k][2]]
         IN  [ i |-> pairs[k][1], j |-> pairs[k][2], idx |-> k,
               dist |-> (hub1[1] - hub2[1]) * (hub1[1] - hub2[1])
                          + (hub1[2] - hub2[2]) * (hub1[2] - hub2[2]) ]] \o <<>>

\* edges.sort that puts the longest edges first
SortedByDist_descending(edges) ==
  LET Before(e, f) == e.dist > f.dist \/ (e.dist = f.dist /\ e.idx < f.idx)
      Rank(e) == Cardinality({k \in 1..Len(edges) : Before(edges[k], e)})
  IN  [k \in 1..Len(edges) |->
         edges[CHOOSE m \in 1..Len(edges) : Rank(edges[m]) = k - 1]] \o <<>>

\* edges.sort((a, b) => a.dist - b.dist): ascending, equal distances in the
\* order they had (the sort is stable)
SortedByDist(edges) ==
  LET Before(e, f) == e.dist < f.dist \/ (e.dist = f.dist /\ e.idx < f.idx)
      Rank(e) == Cardinality({k \in 1..Len(edges) : Before(edges[k], e)})
  IN  [k \in 1..Len(edges) |->
         edges[CHOOSE m \in 1..Len(edges) : Rank(edges[m]) = k - 1]] \o <<>>

\* find(x): the root of x, and parent with the path from x compressed
RECURSIVE find(_, _)
find(parent, x) ==
  IF parent[x] # x
  THEN LET f == find(parent, parent[x])
       IN  [parent |-> [f.parent EXCEPT ![x] = f.root], root |-> f.root]
  ELSE [parent |-> parent, root |-> x]

\* union(x, y): parent afterwards, and whether the two were apart
union(parent, x, y) ==
  LET px == find(parent, x)
      py == find(px.parent, y)
  IN  IF px.root # py.root
      THEN [parent |-> [py.parent EXCEPT ![px.root] = py.root], joined |-> TRUE]
      ELSE [parent |-> py.parent, joined |-> FALSE]

\* the loop "for (const edge of edges)" from edge k on, with mstEdges
\* selected so far; it stops at count selected edges
RECURSIVE SelectEdges(_, _, _, _, _)
SelectEdges(edges, k, parent, mstEdges, count) ==
  IF k > Len(edges) THEN mstEdges
  ELSE LET u == union(parent, edges[k].i, edges[k].j) IN
       IF u.joined
       THEN IF Len(mstEdges) + 1 = count THEN Append(mstEdges, edges[k])
            ELSE SelectEdges(edges, k + 1, u.parent, Append(mstEdges, edges[k]), count)
       ELSE SelectEdges(edges, k + 1, u.parent, mstEdges, count)

\* Renderer.drawTransitRoutes: the edges it selects for drawing
\* (none when there are fewer than two hubs)
drawTransitRoutes(w) ==
  LET transitHubs == TransitHubs(TheGrid(w))
      edges == SortedByDist(HubEdges(transitHubs))
      parent == [idx \in 1..Len(transitHubs) |-> idx] \o <<>>
  IN  IF Len(transitHubs) < 2 THEN <<>>
      ELSE SelectEdges(edges, 1, parent, <<>>, Len(transitHubs) - 1)

(***************************************************************************)
(* The report generator.                                                   *)
(***************************************************************************)
\* ReportGenerator.getRating with strict comparisons (">" for ">=")
getRating_strictComparisons(score) ==
  IF score > 80 THEN "excellent"
  ELSE IF score > 60 THEN "good"
  ELSE IF score > 40 THEN "fair"
  ELSE "poor"

\* ReportGenerator.getRating(score)
getRating(score) ==
  IF score >= 80 THEN "excellent"
  ELSE IF score >= 60 THEN "good"
  ELSE IF score >= 40 THEN "fair"
  ELSE "poor"

(***************************************************************************)
(* The application's other fields (SmartCityApp and the objects it owns):  *)
(*   cities        cityStorage.cities, the stored records, oldest first;   *)
(*                 the grid, distribution and stats of a record are        *)
(*                 references into the heap,                               *)
(*   localStorage  the item saveAll() wrote: the records serialised, with  *)
(*                 the objects' contents in place of the references,       *)
(*   now           the clock savedAt is read from (it ticks at every save),*)
(*   instance      the CityModel instance that is this.city (each          *)
(*                 "new CityModel" makes the next instance),               *)
(*   instances     the number of instances made so far,                    *)
(*   renderer, metrics, simulator                                          *)
(*                 the instance each of the three objects holds.           *)
(*   model         whether aiGenerator.model is set (not null),            *)
(*   isGenerating  aiGenerator.isGenerating,                               *)
(*   pending       the generate() calls that have not settled, oldest      *)
(*                 first: the prompt of each and the promise it awaits.    *)
(*   isSimulating  this.isSimulating,                                      *)
(*   slider        the value of the time slider,                           *)
(*   timers        the number of setTimeout(step, 500) timers that have    *)
(*                 not fired,                                              *)
(*   currentTool   this.currentTool,                                       *)
(*   isDrawing     this.isDrawing,                                         *)
(*   hasUnsavedChanges                                                     *)
(*                 this.city.hasUnsavedChanges as a condition reads it     *)
(*                 (the property is absent until draw() assigns it),       *)
(*   dashboard     the zone distribution the dashboard's chart shows: the  *)
(*                 one the last updateDashboard() of init() or of a canvas *)
(*                 handler drew (<<>> before init()).                      *)
(***************************************************************************)
MAX_STORED_CITIES == 10

NewApp ==
  [ cities |-> <<>>, localStorage |-> <<>>, now |-> 1,
    instance |-> 1, instances |-> 1,
    renderer |-> 1, metrics |-> 1, simulator |-> 1,
    model |-> FALSE, isGenerating |-> FALSE, pending |-> <<>>,
    isSimulating |-> FALSE, slider |-> BaselineYear, timers |-> 0,
    currentTool |-> "select", isDrawing |-> FALSE,
    hasUnsavedChanges |-> FALSE, dashboard |-> <<>> ]

\* JSON.stringify(this.cities): every record with its objects' contents
Serialised(h, cities) ==
  [i \in 1..Len(cities) |->
     [ id |-> cities[i].id, name |-> cities[i].name, savedAt |-> cities[i].savedAt,
       gridSize |-> cities[i].gridSize, size |-> cities[i].size,
       stats |-> h.stats[cities[i].stats],
       distribution |-> h.dist[cities[i].distribution],
       grid |-> h.grid[cities[i].grid] ]] \o <<>>

\* JSON.parse of the stored item: every record with objects of its own
RECURSIVE Parsed(_, _)
Parsed(a, item) ==
  IF item = <<>> THEN a
  ELSE LET h == a.w.heap
           r == item[1]
           record == [ id |-> r.id, name |-> r.name, savedAt |-> r.savedAt,
                       gridSize |-> r.gridSize, size |-> r.size,
                       stats |-> NewRef(h.stats),
                       distribution |-> NewRef(h.dist),
                       grid |-> NewRef(h.grid) ]
       IN  Parsed([a EXCEPT !.w.heap = [grid |-> Store(h.grid, record.grid, r.grid),
                                        dist |-> Store(h.dist, record.distribution, r.distribution),
                                        stats |-> Store(h.stats, record.stats, r.stats)],
                            !.app.cities = Append(@, record)],
                  Tail(item))

\* CityStorage.constructor: this.cities = this.loadAll()
CityStorage_constructor(a) == Parsed([a EXCEPT !.app.cities = <<>>], a.app.localStorage)

\* CityStorage.saveAll()
saveAll(a) == [a EXCEPT !.app.localStorage = Serialised(a.w.heap, a.app.cities)]

\* the position of the first record with the given id, 0 when there is none
\* (findIndex, counted from 1)
findIndex(cities, id) ==
  IF \E i \in 1..Len(cities) : cities[i].id = id
  THEN CHOOSE i \in 1..Len(cities) :
         cities[i].id = id /\ \A j \in 1..(i - 1) : cities[j].id # id
  ELSE 0

\* CityStorage.save dropping the oldest record only above MAX_STORED_CITIES
CityStorage_save_lateShift(a, name) ==
  LET w == a.w
      c == w.city
      d == NewRef(w.heap.dist)
      s == NewRef(w.heap.stats)
      savedCity == [ id |-> c.id,
                     name |-> IF name # "" THEN name ELSE c.name,
                     savedAt |-> a.app.now,
                     gridSize |-> c.gridSize, size |-> c.size,
                     stats |-> s, distribution |-> d, grid |-> c.grid ]
      cities == a.app.cities
      existingIndex == findIndex(cities, savedCity.id)
  IN  saveAll([a EXCEPT
        !.w.heap = [grid |-> w.heap.grid,
                    dist |-> Store(w.heap.dist, d, Spread(w.heap.dist, c.distribution)),
                    stats |-> Store(w.heap.stats, s, TheStats(w))],
        !.w.ret = savedCity.id,
        !.app.now = @ + 1,
        !.app.cities =
          IF existingIndex > 0 THEN [cities EXCEPT ![existingIndex] = savedCity]
          ELSE Append(IF Len(cities) > MAX_STORED_CITIES THEN Tail(cities) ELSE cities,
                      savedCity)])

\* CityStorage.save(city, name), name "" for none: the record holds spread
\* copies of stats and distribution and city.grid itself.  (city.id is set
\* by every constructor and import, so generateId() is never needed.)
CityStorage_save(a, name) ==
  LET w == a.w
      c == w.city
      d == NewRef(w.heap.dist)
      s == NewRef(w.heap.stats)
      savedCity == [ id |-> c.id,
                     name |-> IF name # "" THEN name ELSE c.name,
                     savedAt |-> a.app.now,
                     gridSize |-> c.gridSize, size |-> c.size,
                     stats |-> s, distribution |-> d, grid |-> c.grid ]
      cities == a.app.cities
      existingIndex == findIndex(cities, savedCity.id)
  IN  saveAll([a EXCEPT
        !.w.heap = [grid |-> w.heap.grid,
                    dist |-> Store(w.heap.dist, d, Spread(w.heap.dist, c.distribution)),
                    stats |-> Store(w.heap.stats, s, TheStats(w))],
        !.w.ret = savedCity.id,
        !.app.now = @ + 1,
        !.app.cities =
          IF existingIndex > 0 THEN [cities EXCEPT ![existingIndex] = savedCity]
          ELSE Append(IF Len(cities) >= MAX_STORED_CITIES THEN Tail(cities) ELSE cities,
                      savedCity)])

\* CityStorage.load(id): the position of the record, 0 for null
CityStorage_load(a, id) == findIndex(a.app.cities, id)

\* CityStorage.delete(id)
CityStorage_delete(a, id) ==
  LET index == findIndex(a.app.cities, id) IN
  IF index > 0
  THEN saveAll([a EXCEPT !.app.cities = SubSeq(@, 1, index - 1) \o SubSeq(@, index + 1, Len(@)),
                         !.w.ret = "true"])
  ELSE [a EXCEPT !.w.ret = "false"]

\* CityStorage.clearAll()
CityStorage_clearAll(a) ==
  [a EXCEPT !.app.cities = <<>>, !.app.localStorage = <<>>, !.w.ret = "undefined"]

\* new CityModel(gridSize) for a numeric gridSize, made while the objects of
\* a.w exist: the new city's objects and identifiers are new ones
NewCityModel(a, gridSize) ==
  LET w == a.w
      g == NewRef(w.heap.grid)
      d == NewRef(w.heap.dist)
      s == NewRef(w.heap.stats)
      w0 == [ city |-> [ id |-> w.nextId,
                         name |-> "New City",
                         size |-> IF gridSize <= 60 THEN "small"
                                  ELSE IF gridSize <= 100 THEN "medium" ELSE "large",
                         gridSize |-> gridSize,
                         grid |-> g,
                         distribution |-> d,
                         stats |-> s,
                         history |-> <<>>,
                         historyIndex |-> 0 - 1 ],
              heap |-> [ grid |-> Store(w.heap.grid, g, create2DArray(gridSize, w.nextId + 1)),
                         dist |-> Store(w.heap.dist, d, EmptyDistribution(gridSize)),
                         stats |-> Store(w.heap.stats, s, InitialStats) ],
              nextId |-> w.nextId + 1 + gridSize * gridSize,
              exc |-> FALSE,
              ret |-> "undefined" ]
  IN  [a EXCEPT !.w = saveState(w0),
                !.app.instance = a.app.instances + 1,
                !.app.instances = a.app.instances + 1]

\* SmartCityApp.saveCurrentCity with the text of the name input
saveCurrentCity(a, input) ==
  CityStorage_save(a, IF input # "" THEN input ELSE "City")

\* SmartCityApp.loadSavedCity(id)
loadSavedCity(a, id) ==
  LET index == CityStorage_load(a, id) IN
  IF index = 0 THEN [a EXCEPT !.w.ret = "undefined"]
  ELSE LET cityData == a.app.cities[index]
           resized == IF a.w.city.gridSize # cityData.gridSize
                      THEN LET n == NewCityModel(a, cityData.gridSize)
                           IN  [n EXCEPT !.app.renderer = n.app.instance,
                                         !.app.metrics = n.app.instance]
                      ELSE a
           imported == importData(resized.w,
                                  [ isNull |-> FALSE, id |-> cityData.id, name |-> cityData.name,
                                    size |-> cityData.size, gridSize |-> cityData.gridSize,
                                    grid |-> cityData.grid,
                                    distribution |-> cityData.distribution ])
       IN  [resized EXCEPT !.w = Returning(imported, "undefined")]

\* the resize branch of generateCity and loadSampleCity: a new city, handed
\* to the renderer, and new Metrics and a new Simulator made for it
Resized(a, gridSize) ==
  LET n == NewCityModel(a, gridSize)
  IN  [n EXCEPT !.app.renderer = n.app.instance,
                !.app.metrics = n.app.instance,
                !.app.simulator = n.app.instance,
                !.sim = NewSimulator]

\* SmartCityApp.generateCity from the result of aiGenerator.generate on, for
\* the size newSize of the size slider
generateCity(a, result, newSize, rnd) ==
  IF ~result.success THEN [a EXCEPT !.w.ret = "undefined"]
  ELSE LET resized == IF a.w.city.gridSize # newSize THEN Resized(a, newSize) ELSE a
           w1 == generateLayout(resized.w, result.params, rnd)
       IN  IF w1.exc THEN [resized EXCEPT !.w = Returning(w1, "undefined")]
           ELSE Simulator_saveBaseline([resized EXCEPT !.w = w1])

\* SmartCityApp.loadSampleCity(cityId) for the sample found
loadSampleCityOf(a, sample, rnd) ==
  LET resized == IF a.w.city.gridSize # sample.gridSize THEN Resized(a, sample.gridSize)
                 ELSE a
  IN  loadSampleCity([resized EXCEPT !.w.city.name = sample.name], sample.ratios, rnd)

\* SmartCityApp.deleteSavedCity(id)
deleteSavedCity(a, id) == CityStorage_delete(a, id)

(***************************************************************************)
(* Playing the simulation.  FinalYear is playSimulation's targetYear.      *)
(***************************************************************************)
\* step with "currentYear > targetYear" for ">="
step_strictlyAbove(a) ==
  IF ~a.app.isSimulating THEN [a EXCEPT !.w.ret = "undefined"]
  ELSE LET currentYear == a.app.slider IN
       IF currentYear > FinalYear
       THEN [a EXCEPT !.app.isSimulating = FALSE, !.w.ret = "undefined"]
       ELSE LET moved == [a EXCEPT !.app.slider = currentYear + 1]
                called == Simulator_setTargetYear(moved, currentYear + 1)
            IN  [called EXCEPT !.app.timers = @ + 1]

\* the closure step of playSimulation: it returns what setTargetYear
\* returned when it called it, else undefined
step(a) ==
  IF ~a.app.isSimulating THEN [a EXCEPT !.w.ret = "undefined"]
  ELSE LET currentYear == a.app.slider IN
       IF currentYear >= FinalYear
       THEN [a EXCEPT !.app.isSimulating = FALSE, !.w.ret = "undefined"]
       ELSE LET moved == [a EXCEPT !.app.slider = currentYear + 1]
                called == Simulator_setTargetYear(moved, currentYear + 1)
            IN  [called EXCEPT !.app.timers = @ + 1]

\* SmartCityApp.playSimulation(): the Play / Pause button
playSimulation(a) ==
  IF a.app.isSimulating
  THEN [a EXCEPT !.app.isSimulating = FALSE, !.w.ret = "undefined"]
  ELSE step([a EXCEPT !.app.isSimulating = TRUE])

\* a timer set by setTimeout(step, 500) fires
stepTimer(a) == step([a EXCEPT !.app.timers = @ - 1])

(***************************************************************************)
(* The AI generator.  A generate() call runs up to its first await, and    *)
(* goes on when the awaited promise settles.                               *)
(***************************************************************************)
\* AIGenerator.setApiKey(key) for a key that initializeAI accepts
AIGenerator_setApiKey(a) == [a EXCEPT !.app.model = TRUE, !.w.ret = "true"]

\* generate(prompt) up to its await: generateWithGemini when the model is
\* available, else generateDemo
AIGenerator_generate(a, prompt) ==
  [a EXCEPT !.app.isGenerating = TRUE,
            !.app.pending = Append(@, [ prompt |-> prompt,
                                        awaits |-> IF a.app.model THEN "generateWithGemini"
                                                   ELSE "generateDemo" ]),
            !.w.ret = "promise"]

\* generateWithGemini of pending call k rejects: the catch block awaits
\* generateDemo
AIGenerator_rejected(a, k) ==
  [a EXCEPT !.app.pending[k].awaits = "generateDemo", !.w.ret = "undefined"]

\* the promise pending call k awaits resolves: the finally block runs and
\* the call returns the result
AIGenerator_resolved(a, k) ==
  [a EXCEPT !.app.isGenerating = FALSE,
            !.app.pending = SubSeq(@, 1, k - 1) \o SubSeq(@, k + 1, Len(@)),
            !.w.ret = IF a.app.pending[k].awaits = "generateWithGemini" THEN "gemini"
                      ELSE "demo"]

(***************************************************************************)
(* The state machine.                                                      *)
(***************************************************************************)
World == [city |-> city, heap |-> heap, nextId |-> nextId, exc |-> FALSE, ret |-> "undefined"]

\* the position inside a running generateLayout call: the loop it is in,
\* the loop variables a (outer) and b (inner), the call's params and the
\* draws Math.random() will return; Idle when no call is running.
\* mark holds the program state in which the latest pass of an outer loop
\* began (none before the first), and again tells that the pass that has
\* just begun began in exactly the state of mark.
Idle ==
  [ phase |-> "idle", a |-> 0, b |-> 0, params |-> <<>>, rnd |-> <<>>,
    mark |-> <<>>, again |-> FALSE ]

\* the state after an operation that ended in world r
Becomes(op, r) ==
  \E n \in {Collect(r)} :
  /\ city' = n.city
  /\ heap' = n.heap
  /\ nextId' = n.nextId
  /\ ret' = [op |-> op, value |-> n.ret]
  /\ edits' = IF n.nextId # nextId \/ op = "importData" THEN edits + 1 ELSE edits
  /\ pc' = pc
  /\ sim' = sim
  /\ app' = app

Init ==
  \E size \in GridSizes :
    LET n == Collect(Constructor(size)) IN
    /\ city = n.city
    /\ heap = n.heap
    /\ nextId = n.nextId
    /\ ret = [op |-> "constructor", value |-> "undefined"]
    /\ edits = 0
    /\ pc = Idle
    /\ sim = NewSimulator
    /\ app = NewApp

CanEdit == edits < MaxEdits
CanSave == city.historyIndex + 2 <= MaxHist

SetZoneAction ==
  /\ CanEdit
  /\ \E x \in Coords, y \in Coords, type \in TypeInputs :
       Becomes("setZone", setZone(World, x, y, type))

FillAreaAction ==
  /\ CanEdit /\ CanSave
  /\ \E p \in Corners, q \in Corners, type \in TypeInputs :
       Becomes("fillArea", fillArea(World, p[1], p[2], q[1], q[2], type))

ClearAction ==
  /\ CanEdit
  /\ Becomes("clear", clear(World))

SaveStateAction ==
  /\ CanSave
  /\ Becomes("saveState", saveState(World))

\* the layout parameters and the random draws handed to generateLayout
ParamInputs ==
  { [residentialRatio |-> 350, commercialRatio |-> 150, industrialRatio |-> 100,
     greenRatio |-> 250, transitRatio |-> 80, roadRatio |-> 70],
    [residentialRatio |-> 0, commercialRatio |-> 0, industrialRatio |-> 0,
     greenRatio |-> 0, transitRatio |-> 0, roadRatio |-> 0] }

DrawInputs(n) == {[y \in 1..n |-> [x \in 1..n |-> v] \o <<>>] \o <<>> : v \in {0, 500, 999}}

GenerateLayoutAction ==
  /\ CanEdit /\ CanSave
  /\ Terminates(city.gridSize)
  /\ \E params \in ParamInputs, rnd \in DrawInputs(city.gridSize) :
       Becomes("generateLayout", generateLayout(World, params, rnd))

UndoAction == Becomes("undo", undo(World))

\* a well-formed payload from elsewhere: a 2x2 grid of green zones
ForeignGrid ==
  << <<[type |-> "green", id |-> 0 - 1], [type |-> "green", id |-> 0 - 2]>>,
     <<[type |-> "green", id |-> 0 - 3], [type |-> "green", id |-> 0 - 4]>> >>

ForeignDistribution ==
  [ empty |-> 0, residential |-> 0, commercial |-> 0, industrial |-> 0,
    green |-> 4, transit |-> 0, road |-> 0 ]

\* the payloads handed to importData, each with the world that holds its
\* objects: null, the city's own export, a well-formed foreign payload, a
\* payload without grid and distribution, a payload whose size class is
\* unknown and that has no gridSize
ImportInputs ==
  LET w == World IN
  { [world |-> w, data |-> NullData],
    [world |-> w, data |-> exportData(w)],
    [world |-> [w EXCEPT !.heap.grid = Append(@, ForeignGrid),
                         !.heap.dist = Append(@, ForeignDistribution)],
     data |-> [isNull |-> FALSE, id |-> 0 - 5, name |-> "Foreign", size |-> "small",
               gridSize |-> 2, grid |-> Len(w.heap.grid) + 1,
               distribution |-> Len(w.heap.dist) + 1]],
    [world |-> w,
     data |-> [isNull |-> FALSE, id |-> 0, name |-> "", size |-> "",
               gridSize |-> w.city.gridSize, grid |-> Undefined,
               distribution |-> Undefined]],
    [world |-> w,
     data |-> [isNull |-> FALSE, id |-> 0, name |-> "", size |-> "huge",
               gridSize |-> 0, grid |-> Undefined, distribution |-> Undefined]] }

ImportDataAction ==
  /\ CanEdit /\ CanSave
  /\ \E in \in ImportInputs : Becomes("importData", importData(in.world, in.data))

RedoAction == Becomes("redo", redo(World))

Next ==
  \/ SetZoneAction
  \/ FillAreaAction
  \/ ClearAction
  \/ GenerateLayoutAction
  \/ SaveStateAction
  \/ UndoAction
  \/ RedoAction

Spec == Init /\ [][Next]_vars

\* the operations of Spec and importData
NextImport ==
  \/ Next
  \/ ImportDataAction

SpecImport == Init /\ [][NextImport]_vars

(***************************************************************************)
(* The history cap: a one-cell city on which every saved mutation flips    *)
(* the cell, made with the cursor on the newest snapshot, together with    *)
(* undo and redo.                                                          *)
(***************************************************************************)
InitCap ==
  \E n \in {Collect(Constructor(CapGridSize))} :
    /\ city = n.city
    /\ heap = n.heap
    /\ nextId = n.nextId
    /\ ret = [op |-> "constructor", value |-> "undefined"]
    /\ edits = 0
    /\ pc = Idle
    /\ sim = NewSimulator
    /\ app = NewApp

SavedMutationAction ==
  /\ edits < MaxSavedMutations
  /\ city.historyIndex = Len(city.history) - 1
  /\ LET type == IF Cell(TheGrid(World), 0, 0).type = "empty"
                 THEN "residential" ELSE "empty"
     IN  Becomes("fillArea", fillArea(World, 0, 0, 0, 0, type))

NextCap ==
  \/ SavedMutationAction
  \/ UndoAction
  \/ RedoAction

SpecCap == InitCap /\ [][NextCap]_vars

(***************************************************************************)
(* One generateLayout(params) call, loop iteration by loop iteration, on a *)
(* newly constructed city of each size up to MaxLayoutGrid.  The call is   *)
(* deterministic once the draws are fixed: when a pass of a loop begins in *)
(* the state in which the pass before it began, the loop never ends.       *)
(***************************************************************************)
MaxLayoutGrid == 16

LayoutSizes == 1..MaxLayoutGrid

InitLayout ==
  \E size \in LayoutSizes, params \in ParamInputs :
  \E rnd \in DrawInputs(size) :
  \E n \in {Collect(Constructor(size))} :
    /\ city = n.city
    /\ heap = n.heap
    /\ nextId = n.nextId
    /\ ret = [op |-> "constructor", value |-> "undefined"]
    /\ edits = 0
    /\ pc = [Idle EXCEPT !.phase = "call", !.params = params, !.rnd = rnd]
    /\ sim = NewSimulator
    /\ app = NewApp

\* the state after a step of the call that ended in world r, at position
\* (phase, a, b)
Steps(r, phase, a, b) ==
  \E n \in {Collect(r)} :
  /\ city' = n.city
  /\ heap' = n.heap
  /\ nextId' = n.nextId
  /\ ret' = [op |-> "generateLayout", value |-> "undefined"]
  /\ edits' = edits
  /\ pc' = [pc EXCEPT !.phase = phase, !.a = a, !.b = b]
  /\ sim' = sim
  /\ app' = app

\* the state after the step that ends a pass of an outer loop and begins
\* the next one at position (phase, a, b); the step changes a and b only
NextPass(phase, a, b) ==
  LET begun == [city |-> city, heap |-> heap, nextId |-> nextId,
                phase |-> phase, a |-> a, b |-> b]
  IN  /\ UNCHANGED <<city, heap, nextId, edits, sim, app>>
      /\ ret' = [op |-> "generateLayout", value |-> "undefined"]
      /\ pc' = [pc EXCEPT !.phase = phase, !.a = a, !.b = b,
                          !.mark = <<begun>>, !.again = (pc.mark = <<begun>>)]

\* this.clear(), then generateRoadNetwork() up to "let y = spacing"
LayoutBegin ==
  /\ pc.phase = "call"
  /\ Steps(clear(World), "roadsH", RoadSpacing(city.gridSize), 0)

\* for (y = spacing; y < gridSize; y += spacing)
\*   for (x = 0; x < gridSize; x++) this.setZone(x, y, 'road')
HorizontalRoadStep ==
  /\ pc.phase = "roadsH"
  /\ LET n == city.gridSize
         spacing == RoadSpacing(n)
     IN  IF pc.a >= n THEN Steps(World, "roadsV", spacing, 0)
         ELSE IF pc.b >= n THEN NextPass("roadsH", pc.a + spacing, 0)
         ELSE Steps(setZone(World, pc.b, pc.a, "road"), "roadsH", pc.a, pc.b + 1)

\* for (x = spacing; x < gridSize; x += spacing)
\*   for (y = 0; y < gridSize; y++) this.setZone(x, y, 'road')
VerticalRoadStep ==
  /\ pc.phase = "roadsV"
  /\ LET n == city.gridSize
         spacing == RoadSpacing(n)
     IN  IF pc.a >= n THEN Steps(World, "diagonal", 0 - 2, 0)
         ELSE IF pc.b >= n THEN NextPass("roadsV", pc.a + spacing, 0)
         ELSE Steps(setZone(World, pc.a, pc.b, "road"), "roadsV", pc.a, pc.b + 1)

\* for (i = -2; i <= 2; i++) for (j = 0; j < gridSize; j++) ...; when the
\* loops end generateRoadNetwork returns and the ring loop starts
DiagonalStep ==
  /\ pc.phase = "diagonal"
  /\ LET n == city.gridSize
         center == n \div 2
         offset == pc.b - center
         row == center + offset + pc.a
     IN  IF pc.a > 2 THEN Steps(World, "rings", 0, 0)
         ELSE IF pc.b >= n THEN NextPass("diagonal", pc.a + 1, 0)
         ELSE IF row >= 0 /\ row < n
         THEN Steps(setZone(World, pc.b, row, "road"), "diagonal", pc.a, pc.b + 1)
         ELSE Steps(World, "diagonal", pc.a, pc.b + 1)

\* for (y = 0; y < gridSize; y++) for (x = 0; x < gridSize; x++) ...; when
\* the loops end addTransitHubs() starts, up to "let y = spacing"
RingLoopStep ==
  /\ pc.phase = "rings"
  /\ LET n == city.gridSize IN
     IF pc.a >= n THEN Steps(World, "hubs", HubSpacing(n), HubSpacing(n))
     ELSE IF pc.b >= n THEN NextPass("rings", pc.a + 1, 0)
     ELSE Steps(RingStep(World, pc.a * n + pc.b, pc.params, pc.rnd),
                "rings", pc.a, pc.b + 1)

\* for (y = spacing; y < gridSize; y += spacing)
\*   for (x = spacing; x < gridSize; x += spacing) { four setZone calls }
HubStep ==
  /\ pc.phase = "hubs"
  /\ LET n == city.gridSize
         spacing == HubSpacing(n)
         x == pc.b
         y == pc.a
         hub == << <<x, y>>, <<x + 1, y>>, <<x, y + 1>>, <<x + 1, y + 1>> >>
     IN  IF y >= n THEN Steps(World, "finish", 0, 0)
         ELSE IF x >= n THEN NextPass("hubs", y + spacing, spacing)
         ELSE Steps(SetZones(World, hub, "transit"), "hubs", y, x + spacing)

\* this.calculateStats(); this.saveState(); return
FinishStep ==
  /\ pc.phase = "finish"
  /\ Steps(saveState(calculateStats(World)), "done", 0, 0)

NextLayout ==
  \/ LayoutBegin
  \/ HorizontalRoadStep
  \/ VerticalRoadStep
  \/ DiagonalStep
  \/ RingLoopStep
  \/ HubStep
  \/ FinishStep

SpecLayout == InitLayout /\ [][NextLayout]_vars

(***************************************************************************)
(* Cities zoned cell by cell and band by band, one city for each count of  *)
(* each type: the statistics depend on the distribution only, so the zones *)
(* are laid in row-major order and in the order of NonEmptyTypes.  Small   *)
(* cities (up to MaxStatGrid) are zoned with setZone, cell by cell; the    *)
(* city of size BandGrid is zoned with fillArea, two rows at a time; the   *)
(* cities made from a size key are left as constructed.  clear() ends the  *)
(* zoning of a city.                                                       *)
(***************************************************************************)
MaxStatGrid == 3
BandGrid == 10

StatSizes == (1..MaxStatGrid) \cup {BandGrid}

NonEmptyTypes ==
  <<"residential", "commercial", "industrial", "green", "transit", "road">>

\* the position of type t in NonEmptyTypes, 0 for empty
TypeRank(t) ==
  IF t = "empty" THEN 0
  ELSE CHOOSE i \in 1..Len(NonEmptyTypes) : NonEmptyTypes[i] = t

\* the size keys handed to the constructor: the three classes and a key
\* that CITY_SIZES does not have
SizeKeys == {"small", "medium", "large", "huge"}

\* the state after new CityModel(size), which left world w
NewCity(w) ==
  \E n \in {Collect(w)} :
    /\ city = n.city
    /\ heap = n.heap
    /\ nextId = n.nextId
    /\ ret = [op |-> "constructor", value |-> "undefined"]
    /\ edits = 0
    /\ pc = Idle
    /\ sim = NewSimulator
    /\ app = NewApp

InitStats ==
  \/ \E size \in StatSizes : NewCity(Constructor(size))
  \/ \E size \in SizeKeys : NewCity(ConstructorOfKey(size))

\* setZone(x, y, type) on the first empty cell in row-major order
SetNextCellAction ==
  /\ city.gridSize <= MaxStatGrid
  /\ LET n == city.gridSize
         k == n * n - TheDistribution(World)["empty"]
         last == IF k = 0 THEN "empty"
                 ELSE Cell(TheGrid(World), (k - 1) % n, (k - 1) \div n).type
     IN  /\ ret.op # "clear"
         /\ k < n * n
         /\ \E i \in 1..Len(NonEmptyTypes) :
              /\ i >= TypeRank(last)
              /\ Becomes("setZone", setZone(World, k % n, k \div n, NonEmptyTypes[i]))

\* fillArea(0, y, gridSize - 1, y + 1, type) on the first two empty rows
FillNextBandAction ==
  /\ city.gridSize = BandGrid
  /\ LET n == city.gridSize
         y == (n * n - TheDistribution(World)["empty"]) \div n
         last == IF y = 0 THEN "empty" ELSE Cell(TheGrid(World), 0, y - 1).type
     IN  /\ ret.op # "clear"
         /\ y + 1 < n
         /\ \E i \in 1..Len(NonEmptyTypes) :
              /\ i >= TypeRank(last)
              /\ Becomes("fillArea", fillArea(World, 0, y, n - 1, y + 1, NonEmptyTypes[i]))

\* clear(), after which the city is left alone
ClearCityAction ==
  /\ ret.op # "clear"
  /\ city.gridSize <= BandGrid
  /\ Becomes("clear", clear(World))

NextStats ==
  \/ SetNextCellAction
  \/ FillNextBandAction
  \/ ClearCityAction

SpecStats == InitStats /\ [][NextStats]_vars

(***************************************************************************)
(* The simulation controls of the application, on a city laid out from a   *)
(* sample: scenario buttons, the time slider and the reset button.  The    *)
(* controls are explored once the baseline is saved.                       *)
(***************************************************************************)
SimGridSize == 16
\* the number of uses of the controls after the city is laid out
MaxSimOps == 3

\* the scenario identifiers of the buttons, and one SCENARIOS does not have
ScenarioInputs == DOMAIN SCENARIOS \cup {"unknown_scenario"}

\* the values of the time slider, and values outside the supported years
YearInputs == {BaselineYear - 1, BaselineYear, BaselineYear + 10, FinalYear, FinalYear + 1}

App == [w |-> World, sim |-> sim, app |-> app]

\* the state after an operation of the application that ended in a
BecomesApp(op, a) ==
  \E n \in {Collect(a.w)} :
  /\ city' = n.city
  /\ heap' = n.heap
  /\ nextId' = n.nextId
  /\ ret' = [op |-> op, value |-> n.ret]
  /\ edits' = IF a.sim.baseline = sim.baseline THEN edits + 1 ELSE edits
  /\ pc' = pc
  /\ sim' = a.sim
  /\ app' = a.app

InitSim == NewCity(Constructor(SimGridSize))

LoadSampleCityAction ==
  /\ sim.baseline = <<>>
  /\ \E ratios \in ParamInputs, rnd \in DrawInputs(city.gridSize) :
       BecomesApp("loadSampleCity", loadSampleCity(App, ratios, rnd))

ApplyScenarioAction ==
  /\ sim.baseline # <<>>
  /\ edits < MaxSimOps
  /\ \E scenarioId \in ScenarioInputs :
       BecomesApp("applyScenario", applyScenario(App, scenarioId))

TimeSliderInputAction ==
  /\ sim.baseline # <<>>
  /\ edits < MaxSimOps
  /\ \E value \in YearInputs :
       BecomesApp("setTargetYear", timeSliderInput(App, value))

ResetSimulationAction ==
  /\ sim.baseline # <<>>
  /\ edits < MaxSimOps
  /\ BecomesApp("resetSimulation", resetSimulation(App))

NextSim ==
  \/ LoadSampleCityAction
  \/ ApplyScenarioAction
  \/ TimeSliderInputAction
  \/ ResetSimulationAction

SpecSim == InitSim /\ [][NextSim]_vars

(***************************************************************************)
(* The report generator rating a score: one getRating(score) call for each *)
(* value a bounded score can take.                                         *)
(***************************************************************************)
\* the largest value of a bounded score
MaxScore == 100

ScoreInputs == 0..MaxScore

InitReport ==
  \E score \in ScoreInputs :
  \E n \in {Collect(Constructor(1))} :
    /\ city = n.city
    /\ heap = n.heap
    /\ nextId = n.nextId
    /\ ret = [op |-> "constructor", value |-> "undefined", score |-> score]
    /\ edits = 0
    /\ pc = Idle
    /\ sim = NewSimulator
    /\ app = NewApp

GetRatingAction ==
  /\ ret.op = "constructor"
  /\ ret' = [op |-> "getRating", value |-> getRating(ret.score), score |-> ret.score]
  /\ UNCHANGED <<city, heap, nextId, edits, pc, sim, app>>

NextReport == GetRatingAction

SpecReport == InitReport /\ [][NextReport]_vars

(***************************************************************************)
(* The renderer drawing the transit routes of cities with up to MaxHubs    *)
(* transit cells, for every placement of the cells on a grid of size       *)
(* RouteGridSize.  The cells are zoned in row-major order.                 *)
(***************************************************************************)
RouteGridSize == 3
MaxHubs == 5

InitRoutes == NewCity(Constructor(RouteGridSize))

\* setZone(x, y, 'transit') on a cell after the last transit cell
PlaceHubAction ==
  LET n == city.gridSize
      hubs == TransitHubs(TheGrid(World))
      last == IF Len(hubs) = 0 THEN 0 - 1
              ELSE hubs[Len(hubs)][2] * n + hubs[Len(hubs)][1]
  IN  /\ Len(hubs) < MaxHubs
      /\ \E k \in (last + 1)..(n * n - 1) :
           Becomes("setZone", setZone(World, k % n, k \div n, "transit"))

\* a frame is rendered: drawTransitRoutes selects its edges
DrawTransitRoutesAction ==
  /\ ret.op # "drawTransitRoutes"
  /\ ret' = [op |-> "drawTransitRoutes", value |-> drawTransitRoutes(World)]
  /\ UNCHANGED <<city, heap, nextId, edits, pc, sim, app>>

NextRoutes ==
  \/ PlaceHubAction
  \/ DrawTransitRoutesAction

SpecRoutes == InitRoutes /\ [][NextRoutes]_vars

(***************************************************************************)
(* The application saving, painting, loading and deleting cities.  The     *)
(* city has grid size StoreGridSize; the store starts empty or with one    *)
(* record read from localStorage, of a city one larger and all green.      *)
(* References are kept as they are (the records hold some).                *)
(***************************************************************************)
StoreGridSize == 1
MaxStoreOps == 4

\* the id of the record found in localStorage
PersistedId == 0 - 5

PersistedItem(n) ==
  LET d == [EmptyDistribution(n) EXCEPT !["empty"] = 0, !["green"] = n * n] IN
  << [ id |-> PersistedId, name |-> "Stored", savedAt |-> 0, gridSize |-> n, size |-> "small",
       stats |-> StatsOf(n, d), distribution |-> d,
       grid |-> [y \in 1..n |->
                   [x \in 1..n |-> [type |-> "green",
                                    id |-> 0 - (5 + (y - 1) * n + x)]] \o <<>>] \o <<>> ] >>

\* the state after an operation of the application that ended in a
BecomesStored(op, a) ==
  /\ city' = a.w.city
  /\ heap' = a.w.heap
  /\ nextId' = a.w.nextId
  /\ ret' = [op |-> op, value |-> a.w.ret]
  /\ edits' = edits + 1
  /\ pc' = pc
  /\ sim' = a.sim
  /\ app' = a.app

InitStorage ==
  \E item \in {<<>>, PersistedItem(StoreGridSize + 1)} :
  \E a \in {CityStorage_constructor([ w |-> Collect(Constructor(StoreGridSize)),
                                      sim |-> NewSimulator,
                                      app |-> [NewApp EXCEPT !.localStorage = item] ])} :
    /\ city = a.w.city
    /\ heap = a.w.heap
    /\ nextId = a.w.nextId
    /\ ret = [op |-> "constructor", value |-> "undefined"]
    /\ edits = 0
    /\ pc = Idle
    /\ sim = a.sim
    /\ app = a.app

StoredIds == {app.cities[i].id : i \in 1..Len(app.cities)}

SaveCurrentCityAction ==
  /\ edits < MaxStoreOps
  /\ \E input \in {"", "Plan"} : BecomesStored("saveCurrentCity", saveCurrentCity(App, input))

\* this.city.setZone(x, y, type), as the drawing tools call it
PaintAction ==
  /\ edits < MaxStoreOps
  /\ \E x, y \in 0..(city.gridSize - 1) : \E type \in {"residential", "empty"} :
       BecomesStored("setZone", [App EXCEPT !.w = setZone(World, x, y, type)])

LoadSavedCityAction ==
  /\ edits < MaxStoreOps
  /\ \E id \in StoredIds \cup {0} : BecomesStored("loadSavedCity", loadSavedCity(App, id))

DeleteSavedCityAction ==
  /\ edits < MaxStoreOps
  /\ \E id \in StoredIds \cup {0} : BecomesStored("deleteSavedCity", deleteSavedCity(App, id))

NextStorage ==
  \/ SaveCurrentCityAction
  \/ PaintAction
  \/ LoadSavedCityAction
  \/ DeleteSavedCityAction

SpecStorage == InitStorage /\ [][NextStorage]_vars

(***************************************************************************)
(* The application replacing its city: generateCity, loadSampleCity and    *)
(* loadSavedCity for grids of size AppGridSize and one larger, and         *)
(* saveCurrentCity.  The store starts empty or with the record of a city   *)
(* of the larger size.                                                     *)
(***************************************************************************)
AppGridSize == 8
MaxAppOps == 3

AppSizes == {AppGridSize, AppGridSize + 1}

\* what aiGenerator.generate() resolves to
GenerateResults ==
  { [success |-> TRUE,
     params |-> [residentialRatio |-> 350, commercialRatio |-> 150, industrialRatio |-> 100,
                 greenRatio |-> 250, transitRatio |-> 80, roadRatio |-> 70]] }

SampleInputs ==
  { [gridSize |-> n, name |-> "Sample",
     ratios |-> [residentialRatio |-> 350, commercialRatio |-> 150, industrialRatio |-> 100,
                 greenRatio |-> 250, transitRatio |-> 80, roadRatio |-> 70]] : n \in AppSizes }

\* Math.random() returning the same value at every call
AppDraws(n) == {[y \in 1..n |-> [x \in 1..n |-> v] \o <<>>] \o <<>> : v \in {0, 999}}

InitApp ==
  \E item \in {<<>>, PersistedItem(AppGridSize + 1)} :
  \E a \in {CityStorage_constructor([ w |-> Collect(Constructor(AppGridSize)),
                                      sim |-> NewSimulator,
                                      app |-> [NewApp EXCEPT !.localStorage = item] ])} :
    /\ city = a.w.city
    /\ heap = a.w.heap
    /\ nextId = a.w.nextId
    /\ ret = [op |-> "constructor", value |-> "undefined"]
    /\ edits = 0
    /\ pc = Idle
    /\ sim = a.sim
    /\ app = a.app

GenerateCityAction ==
  /\ edits < MaxAppOps
  /\ \E result \in GenerateResults, newSize \in AppSizes :
     \E rnd \in AppDraws(newSize) :
       BecomesStored("generateCity", generateCity(App, result, newSize, rnd))

LoadSampleCityOfAction ==
  /\ edits < MaxAppOps
  /\ \E sample \in SampleInputs :
     \E rnd \in AppDraws(sample.gridSize) :
       BecomesStored("loadSampleCity", loadSampleCityOf(App, sample, rnd))

LoadStoredCityAction ==
  /\ edits < MaxAppOps
  /\ \E id \in StoredIds \cup {0} : BecomesStored("loadSavedCity", loadSavedCity(App, id))

SaveCityAction ==
  /\ edits < MaxAppOps
  /\ BecomesStored("saveCurrentCity", saveCurrentCity(App, "Plan"))

NextApp ==
  \/ GenerateCityAction
  \/ LoadSampleCityOfAction
  \/ LoadStoredCityAction
  \/ SaveCityAction

SpecApp == InitApp /\ [][NextApp]_vars

(***************************************************************************)
(* The AI generator with up to MaxPending generate() calls pending.        *)
(***************************************************************************)
MaxPending == 3

PromptInputs == {"eco city", "a town"}

\* the state after a step of the application that touched neither the city
\* nor the simulator
BecomesFields(op, a) ==
  /\ ret' = [op |-> op, value |-> a.w.ret]
  /\ app' = a.app
  /\ UNCHANGED <<city, heap, nextId, edits, pc, sim>>

InitGenerate == NewCity(Constructor(1))

SetApiKeyAction ==
  /\ ~app.model
  /\ BecomesFields("setApiKey", AIGenerator_setApiKey(App))

GenerateAction ==
  /\ Len(app.pending) < MaxPending
  /\ \E prompt \in PromptInputs : BecomesFields("generate", AIGenerator_generate(App, prompt))

RejectedAction ==
  \E k \in 1..Len(app.pending) :
    /\ app.pending[k].awaits = "generateWithGemini"
    /\ BecomesFields("rejected", AIGenerator_rejected(App, k))

ResolvedAction ==
  \E k \in 1..Len(app.pending) : BecomesFields("resolved", AIGenerator_resolved(App, k))

NextGenerate ==
  \/ SetApiKeyAction
  \/ GenerateAction
  \/ RejectedAction
  \/ ResolvedAction

SpecGenerate == InitGenerate /\ [][NextGenerate]_vars

(***************************************************************************)
(* The simulation played on a city of size PlayGridSize loaded from a      *)
(* sample, with up to MaxClicks uses of the Play / Pause button, the Reset *)
(* button and the time slider, in any interleaving with the timers.        *)
(***************************************************************************)
PlayGridSize == 8
MaxClicks == 3

\* values the user moves the time slider to
SliderInputs == {FinalYear - 2}

InitPlay == NewCity(Constructor(PlayGridSize))

\* the state after a step of the application; clicks are counted
BecomesPlayed(op, a, click) ==
  \E n \in {Collect(a.w)} :
  /\ city' = n.city
  /\ heap' = n.heap
  /\ nextId' = n.nextId
  /\ ret' = [op |-> op, value |-> n.ret]
  /\ edits' = IF click THEN edits + 1 ELSE edits
  /\ pc' = pc
  /\ sim' = a.sim
  /\ app' = a.app

LoadSampleAction ==
  /\ sim.baseline = <<>>
  /\ \E sample \in SampleInputs : \E rnd \in AppDraws(sample.gridSize) :
       /\ sample.gridSize = city.gridSize
       /\ rnd[1][1] = 0
       /\ BecomesPlayed("loadSampleCity", loadSampleCityOf(App, sample, rnd), FALSE)

PlaySimulationAction ==
  /\ sim.baseline # <<>> /\ edits < MaxClicks
  /\ BecomesPlayed("playSimulation", playSimulation(App), TRUE)

StepTimerAction ==
  /\ app.timers > 0
  /\ BecomesPlayed("step", stepTimer(App), FALSE)

ResetAction ==
  /\ sim.baseline # <<>> /\ edits < MaxClicks
  /\ BecomesPlayed("resetSimulation", resetSimulation(App), TRUE)

SliderAction ==
  /\ sim.baseline # <<>> /\ edits < MaxClicks
  /\ \E value \in SliderInputs :
       BecomesPlayed("timeSliderInput", timeSliderInput(App, value), TRUE)

NextPlay ==
  \/ LoadSampleAction
  \/ PlaySimulationAction
  \/ StepTimerAction
  \/ ResetAction
  \/ SliderAction

SpecPlay == InitPlay /\ [][NextPlay]_vars

\* a timer that was set fires: the browser runs every pending timer
\* (weak fairness of StepTimerAction, which is enabled exactly when a timer
\* is pending)
SpecPlayFair ==
  SpecPlay /\ ([]<>(app.timers = 0) \/ []<><<StepTimerAction>>_vars)

(***************************************************************************)
(* generateLayout(params) as one operation on a new city of size           *)
(* RingGridSize or one larger, for draws that differ from cell to cell.    *)
(***************************************************************************)
RingGridSize == 16

RingSizes == {RingGridSize, RingGridSize + 1}

RingParams ==
  ParamInputs \cup
  { [residentialRatio |-> 200, commercialRatio |-> 250, industrialRatio |-> 300,
     greenRatio |-> 400, transitRatio |-> 125, roadRatio |-> 150] }

\* Math.random() returning, for the cell numbered k, offset + stride * k
\* thousandths (modulo 1)
VariedDraws(n) ==
  { [y \in 1..n |->
       [x \in 1..n |-> (offset + stride * ((y - 1) * n + (x - 1))) % 1000] \o <<>>] \o <<>> :
    offset \in {0, 300, 700}, stride \in {0, 7, 133} }

\* other values of industrialRatio and roadRatio
IndustrialInputs == {0, 300}
RoadInputs == {30, 150}

InitRings ==
  \E size \in RingSizes, params \in RingParams :
  \E rnd \in VariedDraws(size) :
  \E n \in {Collect(Constructor(size))} :
    /\ city = n.city
    /\ heap = n.heap
    /\ nextId = n.nextId
    /\ ret = [op |-> "constructor", value |-> "undefined"]
    /\ edits = 0
    /\ pc = [Idle EXCEPT !.phase = "call", !.params = params, !.rnd = rnd]
    /\ sim = NewSimulator
    /\ app = NewApp

LayoutAction ==
  /\ pc.phase = "call"
  /\ Steps(generateLayout(World, pc.params, pc.rnd), "done", 0, 0)

NextRings == LayoutAction

SpecRings == InitRings /\ [][NextRings]_vars

(***************************************************************************)
(* The store filling up: it starts with up to MAX_STORED_CITIES records    *)
(* read from localStorage, of cities of the live city's size, and the      *)
(* application saves, loads and deletes, up to MaxStoreCalls times.        *)
(***************************************************************************)
MaxStoreCalls == 3

\* k records with the ids -1000, -2000, ...
PersistedItems(k, n) ==
  [i \in 1..k |->
     [PersistedItem(n)[1] EXCEPT !.id = 0 - 1000 * i, !.savedAt = 0 - i]] \o <<>>

InitStore ==
  \E k \in 0..MAX_STORED_CITIES :
  \E a \in {CityStorage_constructor([ w |-> Collect(Constructor(StoreGridSize)),
                                      sim |-> NewSimulator,
                                      app |-> [NewApp EXCEPT !.localStorage =
                                                 PersistedItems(k, StoreGridSize)] ])} :
    /\ city = a.w.city
    /\ heap = a.w.heap
    /\ nextId = a.w.nextId
    /\ ret = [op |-> "constructor", value |-> "undefined"]
    /\ edits = 0
    /\ pc = Idle
    /\ sim = a.sim
    /\ app = a.app

StoreSaveAction ==
  /\ edits < MaxStoreCalls
  /\ BecomesStored("saveCurrentCity", saveCurrentCity(App, "Plan"))

StoreLoadAction ==
  /\ edits < MaxStoreCalls
  /\ \E id \in StoredIds : BecomesStored("loadSavedCity", loadSavedCity(App, id))

StoreDeleteAction ==
  /\ edits < MaxStoreCalls
  /\ \E id \in StoredIds \cup {0} : BecomesStored("deleteSavedCity", deleteSavedCity(App, id))

\* cityStorage.clearAll()
StoreClearAllAction ==
  /\ edits < MaxStoreCalls
  /\ app.cities # <<>>
  /\ BecomesStored("clearAll", CityStorage_clearAll(App))

NextStore ==
  \/ StoreSaveAction
  \/ StoreLoadAction
  \/ StoreDeleteAction
  \/ StoreClearAllAction

SpecStore == InitStore /\ [][NextStore]_vars

(***************************************************************************)
(* Painting on the canvas (main.js).  The 3D mode is off throughout; the   *)
(* renderer's pan and hover state is not part of the model.  screenToGrid  *)
(* gives the handlers a pair of grid coordinates, which may lie outside   *)
(* the grid.                                                               *)
(***************************************************************************)
\* whether a condition takes the value a call returned as true (undefined
\* and null are taken as false)
Truthy(v) == v \notin {"undefined", "null"}

\* updateDashboard(): the chart is drawn from the city's zone distribution
updateDashboard(a) == [a EXCEPT !.app.dashboard = TheDistribution(a.w)]

selectTool(a, tool) == [a EXCEPT !.app.currentTool = tool]

\* draw(e), e at the grid coordinates pos
draw(a, pos) ==
  LET w1 == setZone(a.w, pos[1], pos[2], a.app.currentTool) IN
  IF w1.exc THEN [a EXCEPT !.w = w1]
  ELSE IF Truthy(w1.ret) THEN [a EXCEPT !.w = w1, !.app.hasUnsavedChanges = TRUE]
  ELSE [a EXCEPT !.w = w1]

onCanvasMouseDown(a, pos) ==
  IF a.app.currentTool = "select" THEN a
  ELSE draw([a EXCEPT !.app.isDrawing = TRUE], pos)

onCanvasMouseMove(a, pos) ==
  IF a.app.currentTool = "select" THEN a
  ELSE IF a.app.isDrawing THEN draw(a, pos)
  ELSE a

onCanvasMouseUp(a) ==
  LET a1 == [a EXCEPT !.app.isDrawing = FALSE] IN
  IF a1.app.hasUnsavedChanges
  THEN [updateDashboard(a1) EXCEPT !.app.hasUnsavedChanges = FALSE]
  ELSE a1

(***************************************************************************)
(* Painting: the application after init() on a small empty city, the user  *)
(* choosing tools and pressing, dragging and releasing the mouse.          *)
(***************************************************************************)
PaintGridSize == 8
MaxPaintEvents == 4

\* the tools of the toolbar the user chooses from
PaintTools == {"select", "residential", "green"}

\* the grid coordinates of the mouse events, one of them off the grid
PaintPositions == {<<0, 0>>, <<1, 1>>, <<0 - 1, 0>>}

\* the parameters init() generates the initial city with (no roadRatio is
\* given, and generateLayout reads none)
InitialParams ==
  [residentialRatio |-> 350, commercialRatio |-> 150, industrialRatio |-> 100,
   greenRatio |-> 250, transitRatio |-> 100, roadRatio |-> 0]

\* init(): the initial city is generated and the dashboard drawn
InitPaint ==
  \E rnd \in AppDraws(PaintGridSize) :
  \E w \in {Collect(generateLayout(Collect(Constructor(PaintGridSize)), InitialParams, rnd))} :
  \E a \in {updateDashboard([w |-> w, sim |-> NewSimulator, app |-> NewApp])} :
    /\ city = a.w.city
    /\ heap = a.w.heap
    /\ nextId = a.w.nextId
    /\ ret = [op |-> "init", value |-> "undefined"]
    /\ edits = 0
    /\ pc = Idle
    /\ sim = a.sim
    /\ app = a.app

SelectToolAction ==
  /\ edits < MaxPaintEvents
  /\ \E tool \in PaintTools :
       /\ tool # app.currentTool
       /\ BecomesPlayed("selectTool", selectTool(App, tool), TRUE)

MouseDownAction ==
  /\ edits < MaxPaintEvents
  /\ ~app.isDrawing
  /\ \E pos \in PaintPositions :
       BecomesPlayed("onCanvasMouseDown", onCanvasMouseDown(App, pos), TRUE)

MouseMoveAction ==
  /\ edits < MaxPaintEvents
  /\ \E pos \in PaintPositions :
       BecomesPlayed("onCanvasMouseMove", onCanvasMouseMove(App, pos), TRUE)

MouseUpAction ==
  /\ edits < MaxPaintEvents
  /\ BecomesPlayed("onCanvasMouseUp", onCanvasMouseUp(App), TRUE)

NextPaint ==
  \/ SelectToolAction
  \/ MouseDownAction
  \/ MouseMoveAction
  \/ MouseUpAction

SpecPaint == InitPaint /\ [][NextPaint]_vars

(***************************************************************************)
(* What the claims speak about.                                            *)
(***************************************************************************)
\* the working grid, distribution and stats of world w
Content(w) ==
  [grid |-> TheGrid(w), distribution |-> TheDistribution(w), stats |-> TheStats(w)]

\* the grid, distribution and stats of the snapshot at index i (from 0)
SnapshotAt(w, i) ==
  LET state == w.city.history[i + 1] IN
  [ grid |-> w.heap.grid[state.grid],
    distribution |-> w.heap.dist[state.distribution],
    stats |-> w.heap.stats[state.stats] ]

\* the snapshots of the history in order
Snapshots(w) == [i \in 1..Len(w.city.history) |-> SnapshotAt(w, i - 1)] \o <<>>

\* the number of cells of grid g whose type is t
CountCells(g, t) ==
  Cardinality({p \in (1..Len(g)) \X (1..Len(g)) : g[p[1]][p[2]].type = t})

\* setZone calls made between two history operations
Mutations ==
  { << <<0, 0, "residential">> >>,
    << <<0, 0, "empty">> >>,
    << <<0, 0, "green">>, <<1, 0, "residential">> >> }

ApplyCalls(w, calls) ==
  LET w1 == setZone(w, calls[1][1], calls[1][2], calls[1][3]) IN
  IF Len(calls) = 1 THEN w1 ELSE setZone(w1, calls[2][1], calls[2][2], calls[2][3])

\* undo() repeated until it returns false
RECURSIVE UndoAll(_)
UndoAll(w) ==
  LET u == undo(w) IN
  IF u.ret = "true" THEN UndoAll(u) ELSE w

(***************************************************************************)
(* C1: in every state reached by setZone, fillArea, clear, generateLayout, *)
(* undo and redo, distribution[t] is the number of grid cells of type t,   *)
(* for every zone type t including empty.                                  *)
(***************************************************************************)
C1_DistributionCountsCells ==
  \A t \in ZoneTypes : TheDistribution(World)[t] = CountCells(TheGrid(World), t)

\* an undo has restored a grid that holds residential cells
C1_Witness ==
  /\ ret.op = "undo" /\ ret.value = "true"
  /\ TheDistribution(World)["residential"] > 0

(***************************************************************************)
(* C2: after any sequence of setZone calls with valid or invalid arguments *)
(* the counts of the distribution sum to gridSize squared.                 *)
(***************************************************************************)
C2_CountsSumToGridSizeSquared ==
  Weighted(TheDistribution(World), Ones) = city.gridSize * city.gridSize

\* a setZone call has just changed a cell
C2_Witness ==
  /\ ret.op = "setZone"
  /\ \E t \in ZoneTypes \ {"empty"} : TheDistribution(World)[t] > 0
  /\ Content(World) # SnapshotAt(World, city.historyIndex)

(***************************************************************************)
(* C3: in every reachable state, the freshly constructed one included, the *)
(* stats record equals what calculateStats computes from the distribution. *)
(***************************************************************************)
C3_StatsAreRecomputed ==
  TheStats(World) = StatsOf(city.gridSize, TheDistribution(World))

(***************************************************************************)
(* C4: from any reachable state S, saveState(), then setZone calls, then   *)
(* undo() restores grid, distribution and stats exactly to those of S.     *)
(***************************************************************************)
C4_UndoAfterSaveRestores ==
  \A m \in Mutations :
    Content(undo(ApplyCalls(saveState(World), m))) = Content(World)

\* C4 as amended: from any reachable state S, saveState(), then setZone
\* calls, then saveState() again, then undo() succeeds and restores grid,
\* distribution and stats exactly to those of S.
C4_UndoAfterSecondSaveRestores ==
  \A m \in Mutations :
    LET r == undo(saveState(ApplyCalls(saveState(World), m))) IN
    r.ret = "true" /\ Content(r) = Content(World)

\* S differs from the snapshot at the cursor and the setZone calls change it
C4_Witness ==
  /\ ret.op = "setZone"
  /\ Content(World) # SnapshotAt(World, city.historyIndex)
  /\ \E m \in Mutations : TheGrid(ApplyCalls(saveState(World), m)) # TheGrid(World)

(***************************************************************************)
(* C5: a successful undo() lowers historyIndex by exactly one, a           *)
(* successful redo() raises it by exactly one, each makes grid,            *)
(* distribution and stats equal to the snapshot at the new index; when the *)
(* working state equals the snapshot at the cursor, undo() then redo()     *)
(* returns to exactly that state.                                          *)
(***************************************************************************)
C5_UndoRedoMoveOneStep ==
  LET w == World
      i == w.city.historyIndex
      u == undo(w)
      r == redo(w)
      b == redo(u)
  IN  /\ u.ret = "true" =>
           /\ u.city.historyIndex = i - 1
           /\ Content(u) = SnapshotAt(w, i - 1)
      /\ r.ret = "true" =>
           /\ r.city.historyIndex = i + 1
           /\ Content(r) = SnapshotAt(w, i + 1)
      /\ (u.ret = "true" /\ Content(w) = SnapshotAt(w, i)) =>
           /\ b.ret = "true"
           /\ b.city.historyIndex = i
           /\ Content(b) = Content(w)
           /\ Snapshots(b) = Snapshots(w)

\* a redo has succeeded, and an undo from here succeeds too
C5_Witness ==
  /\ ret.op = "redo" /\ ret.value = "true"
  /\ city.historyIndex > 0
  /\ Content(World) = SnapshotAt(World, city.historyIndex)
  /\ Content(World) # SnapshotAt(World, city.historyIndex - 1)

(***************************************************************************)
(* C6: saveState() after undo() discards every snapshot beyond the cursor: *)
(* the history becomes the snapshots up to the cursor followed by the new  *)
(* one, redo() right afterwards returns false, and undo() and redo() never *)
(* change the stored snapshots, so the discarded ones cannot come back.    *)
(***************************************************************************)
C6_SaveStateDiscardsFuture ==
  LET w == World
      i == w.city.historyIndex
      s == saveState(w)
      kept == SubSeq(Snapshots(w), 1, i + 1) \o <<Content(w)>>
  IN  /\ Snapshots(s) = IF Len(kept) > HistoryLimit THEN Tail(kept) ELSE kept
      /\ redo(s).ret = "false"
      /\ Snapshots(undo(w)) = Snapshots(w)
      /\ Snapshots(redo(w)) = Snapshots(w)

\* an undo has just succeeded: there are snapshots beyond the cursor
C6_Witness ==
  /\ ret.op = "undo" /\ ret.value = "true"
  /\ city.historyIndex < Len(city.history) - 1
  /\ Len(saveState(World).city.history) < Len(city.history) + 1

(***************************************************************************)
(* C7: after construction and any sequence of saveState, fillArea,         *)
(* generateLayout, importData, undo and redo, the history is non-empty and *)
(* 0 <= historyIndex < history.length.                                     *)
(***************************************************************************)
C7_CursorWithinHistory ==
  /\ Len(city.history) > 0
  /\ 0 <= city.historyIndex
  /\ city.historyIndex < Len(city.history)

\* an import succeeded and an undo then went back before it
C7_Witness ==
  /\ ret.op = "undo" /\ ret.value = "true"
  /\ city.name = "Foreign"

(***************************************************************************)
(* C8: history.length never exceeds 50; when saveState runs with 50        *)
(* snapshots and the cursor on the last one, exactly the oldest snapshot   *)
(* is dropped, the other 49 keep their order, the new snapshot is last and *)
(* historyIndex is 49.                                                     *)
(***************************************************************************)
C8_HistoryIsCapped ==
  LET w == World
      s == saveState(w)
  IN  /\ Len(w.city.history) <= 50
      /\ Len(s.city.history) <= 50
      /\ (Len(w.city.history) = 50 /\ w.city.historyIndex = 49) =>
           /\ Len(s.city.history) = 50
           /\ s.city.historyIndex = 49
           /\ \A i \in 0..48 : SnapshotAt(s, i) = SnapshotAt(w, i + 1)
           /\ SnapshotAt(s, 49) = Content(w)

\* a saved mutation has dropped the oldest snapshot of a full history
C8_Witness ==
  /\ ret.op = "fillArea"
  /\ edits > 50
  /\ Len(city.history) = 50 /\ city.historyIndex = 49

(***************************************************************************)
(* C9: undo() at historyIndex 0 and redo() at the last snapshot return     *)
(* false without raising and change nothing; undo() repeated from anywhere *)
(* stops at index 0 with the oldest retained snapshot restored.            *)
(***************************************************************************)
C9_BoundariesReturnFalse ==
  LET w == World
      z == UndoAll(w)
  IN  /\ w.city.historyIndex = 0 => undo(w) = Returning(w, "false")
      /\ w.city.historyIndex = Len(w.city.history) - 1 => redo(w) = Returning(w, "false")
      /\ z.city.historyIndex = 0
      /\ undo(z).ret = "false"
      /\ Snapshots(z) = Snapshots(w)
      /\ w.city.historyIndex > 0 => Content(z) = SnapshotAt(w, 0)

\* after the oldest snapshots were dropped, repeated undo has reached index 0
\* and one more undo has returned false
C9_Witness ==
  /\ ret.op = "undo" /\ ret.value = "false"
  /\ edits > 50
  /\ Len(city.history) = 50

(***************************************************************************)
(* C10: once a snapshot is stored, no later setZone, fillArea, clear or    *)
(* generateLayout changes its grid, distribution or stats, also after the  *)
(* snapshot has been restored by undo() or redo().                         *)
(***************************************************************************)
C10_SnapshotsAreImmutable ==
  [][ /\ ret'.op \in {"setZone", "clear"} => Snapshots(World)' = Snapshots(World)
      /\ ret'.op \in {"fillArea", "generateLayout"} =>
           \A i \in 0..city.historyIndex :
             /\ i < Len(city'.history)
             /\ SnapshotAt(World, i)' = SnapshotAt(World, i) ]_vars

\* a setZone call has changed the grid that an undo had restored
C10_Witness ==
  /\ ret.op = "setZone"
  /\ city.historyIndex < Len(city.history) - 1
  /\ TheGrid(World) # SnapshotAt(World, city.historyIndex).grid

(***************************************************************************)
(* C11: fillArea with a catalog type sets every in-range cell of the       *)
(* inclusive rectangle spanned by the two corners to the type, gives the   *)
(* same result for either order of the corners, leaves every cell outside  *)
(* the rectangle unchanged, and appends exactly one history snapshot, equal *)
(* to the resulting state.                                                 *)
(***************************************************************************)
\* pairs of corners handed to fillArea by the fill claims: a rectangle that
\* starts below the grid, one inside it, one that ends above it
FillPairs ==
  LET n == city.gridSize IN
  { << <<0 - 1, 0 - 1>>, <<0, 1>> >>,
    << <<0, 1>>, <<1, 0>> >>,
    << <<n - 2, n>>, <<n, n - 1>> >> }

\* the history of r is that of w up to w's cursor followed by one snapshot
\* equal to r's working state, with the cursor on it
AppendsOneSnapshot(w, r) ==
  LET kept == SubSeq(Snapshots(w), 1, w.city.historyIndex + 1) \o <<Content(r)>>
  IN  /\ Snapshots(r) = IF Len(kept) > HistoryLimit THEN Tail(kept) ELSE kept
      /\ r.city.historyIndex = Len(r.city.history) - 1

C11_FillAreaFillsRectangle ==
  \A pq \in FillPairs, type \in {"residential", "empty"} :
    LET w == World
        n == w.city.gridSize
        p == pq[1]
        q == pq[2]
        r == fillArea(w, p[1], p[2], q[1], q[2], type)
        Inside(x, y) == /\ Min(p[1], q[1]) <= x /\ x <= Max(p[1], q[1])
                        /\ Min(p[2], q[2]) <= y /\ y <= Max(p[2], q[2])
    IN  /\ ~r.exc
        /\ \A x \in 0..(n - 1), y \in 0..(n - 1) :
             IF Inside(x, y)
             THEN Cell(TheGrid(r), x, y).type = type
             ELSE Cell(TheGrid(r), x, y) = Cell(TheGrid(w), x, y)
        /\ fillArea(w, q[1], q[2], p[1], p[2], type) = r
        /\ fillArea(w, p[1], q[2], q[1], p[2], type) = r
        /\ AppendsOneSnapshot(w, r)

\* a fill has just set several cells and stored one snapshot of the result
C11_Witness ==
  /\ ret.op = "fillArea"
  /\ TheDistribution(World)["residential"] >= 4
  /\ TheDistribution(World)["empty"] > 0
  /\ Content(World) = SnapshotAt(World, city.historyIndex)
  /\ Content(World) # SnapshotAt(World, city.historyIndex - 1)

(***************************************************************************)
(* C12: fillArea with a type that is not in the catalog, or with a         *)
(* rectangle wholly outside the grid, leaves grid, distribution, stats,    *)
(* history and historyIndex unchanged, the snapshots beyond the cursor     *)
(* included.                                                               *)
(***************************************************************************)
\* fillArea calls with invalid input: an unknown type, rectangles below and
\* above the grid
InvalidFills ==
  LET n == city.gridSize IN
  { <<0, 0, 1, 1, "park">>,
    <<0 - 2, 0 - 2, 0 - 1, 0 - 1, "residential">>,
    <<n, n, n + 1, n + 1, "residential">> }

C12_InvalidFillIsNoOp ==
  \A f \in InvalidFills :
    LET r == fillArea(World, f[1], f[2], f[3], f[4], f[5]) IN
    /\ ~r.exc
    /\ Content(r) = Content(World)
    /\ Snapshots(r) = Snapshots(World)
    /\ r.city.historyIndex = city.historyIndex

(***************************************************************************)
(* C13: setZone with x or y outside [0, gridSize) or with a type that is   *)
(* not in the catalog does not raise and leaves grid, distribution, stats, *)
(* history and historyIndex unchanged.                                     *)
(***************************************************************************)
C13_InvalidSetZoneIsNoOp ==
  LET n == city.gridSize IN
  \A x \in {0 - 1, 0, n}, y \in {0 - 1, 0, n}, type \in {"residential", "park"} :
    (x < 0 \/ x >= n \/ y < 0 \/ y >= n \/ type \notin ZoneTypes) =>
      setZone(World, x, y, type) = World

\* a setZone call has changed nothing while snapshots lie beyond the cursor
C13_Witness ==
  /\ ret.op = "setZone" /\ ret.value = "undefined"
  /\ edits = 0
  /\ city.historyIndex < Len(city.history) - 1

(***************************************************************************)
(* C14: setZone(x, y, t) called twice in a row leaves the city after the   *)
(* second call identical to the city after the first: grid (the cell's id  *)
(* included), distribution, stats and history.                             *)
(***************************************************************************)
C14_SetZoneIsIdempotent ==
  \A x \in {0 - 1, 0, 1}, y \in {0, 1}, t \in {"residential", "empty", "green", "park"} :
    LET first == setZone(World, x, y, t)
        second == setZone(first, x, y, t)
    IN  /\ ~second.exc
        /\ second.city = first.city
        /\ second.heap = first.heap
        /\ second.nextId = first.nextId

\* a setZone call has just given cell (0, 0) a new zone
C14_Witness ==
  /\ ret.op = "setZone"
  /\ Cell(TheGrid(World), 0, 0).type = "residential"
  /\ Cell(TheGrid(World), 0, 0).id = nextId - 1

(***************************************************************************)
(* C15: a setZone call that changes a cell lowers the old type's count by  *)
(* exactly one, raises the new type's count by exactly one, changes no     *)
(* cell other than (x, y) and leaves history and historyIndex unchanged.   *)
(***************************************************************************)
C15_SetZoneFrame ==
  \A x \in {0, 1}, y \in {0, 1}, t \in {"residential", "empty", "green"} :
    LET w == World
        n == w.city.gridSize
        old == Cell(TheGrid(w), x, y).type
        r == setZone(w, x, y, t)
    IN  old # t =>
          /\ ~r.exc
          /\ TheDistribution(r)[old] = TheDistribution(w)[old] - 1
          /\ TheDistribution(r)[t] = TheDistribution(w)[t] + 1
          /\ \A u \in ZoneTypes \ {old, t} : TheDistribution(r)[u] = TheDistribution(w)[u]
          /\ Cell(TheGrid(r), x, y).type = t
          /\ \A i \in 0..(n - 1), j \in 0..(n - 1) :
               <<i, j>> # <<x, y>> => Cell(TheGrid(r), i, j) = Cell(TheGrid(w), i, j)
          /\ r.city.history = w.city.history
          /\ Snapshots(r) = Snapshots(w)
          /\ r.city.historyIndex = w.city.historyIndex

\* a setZone call has changed one cell of an empty city and stored nothing
C15_Witness ==
  /\ ret.op = "setZone"
  /\ TheDistribution(World)["residential"] = 1
  /\ TheDistribution(World)["empty"] = city.gridSize * city.gridSize - 1
  /\ Content(World) # SnapshotAt(World, city.historyIndex)

(***************************************************************************)
(* C16: whenever importData(data) returns false (data is null, lacks grid  *)
(* or distribution, or names an unknown size without a gridSize), the      *)
(* city's id, name, size, gridSize, grid, distribution, stats, history and *)
(* historyIndex are exactly as before the call.                            *)
(***************************************************************************)
C16_FailedImportChangesNothing ==
  \A in \in ImportInputs :
    LET r == importData(in.world, in.data) IN
    r.ret = "false" =>
      /\ r.city.id = city.id
      /\ r.city.name = city.name
      /\ r.city.size = city.size
      /\ r.city.gridSize = city.gridSize
      /\ r.city.grid = city.grid
      /\ r.city.distribution = city.distribution
      /\ r.city.stats = city.stats
      /\ r.city.history = city.history
      /\ r.city.historyIndex = city.historyIndex
      /\ r.heap = in.world.heap

(***************************************************************************)
(* C17: for any reachable city, importData(exportData()) returns true and  *)
(* leaves id, name, size, gridSize, grid, distribution and stats equal to  *)
(* their values before the call, appending exactly one history snapshot.   *)
(***************************************************************************)
C17_ImportOfExportRoundTrips ==
  LET w == World
      r == importData(w, exportData(w))
  IN  /\ r.ret = "true"
      /\ r.city.id = w.city.id
      /\ r.city.name = w.city.name
      /\ r.city.size = w.city.size
      /\ r.city.gridSize = w.city.gridSize
      /\ Content(r) = Content(w)
      /\ AppendsOneSnapshot(w, r)

(***************************************************************************)
(* C18: in every state reached through the public operations of one city,  *)
(* importData, undo and redo included, gridSize equals the value fixed at  *)
(* construction and grid has exactly gridSize rows of gridSize cells each. *)
(***************************************************************************)
C18_GridSizeIsFixed ==
  /\ city.gridSize = GridSize
  /\ city.grid # Undefined
  /\ Len(TheGrid(World)) = city.gridSize
  /\ \A y \in 1..Len(TheGrid(World)) : Len(TheGrid(World)[y]) = city.gridSize

(***************************************************************************)
(* C19: generateLayout(params) terminates for a city of every gridSize of  *)
(* at least 1 and for every ratio object: the road loops and the hub loops *)
(* each finish after finitely many steps.  The call is deterministic, so   *)
(* it terminates only if no pass of a loop begins in the very state in     *)
(* which the pass before it began.                                         *)
(***************************************************************************)
C19_GenerateLayoutTerminates == ~pc.again

(***************************************************************************)
(* C20: after generateLayout with commercialRatio = 0 and transitRatio = 0 *)
(* the number of transit cells is exactly 4 times the number of hub        *)
(* positions (x, y) with x and y positive multiples of floor(gridSize / 4) *)
(* below gridSize, for every gridSize on which generateLayout completes.   *)
(***************************************************************************)
\* the hub positions of a grid of size n
HubPositions(n) ==
  {p \in (1..(n - 1)) \X (1..(n - 1)) :
     p[1] % HubSpacing(n) = 0 /\ p[2] % HubSpacing(n) = 0}

C20_TransitCellsAreFourPerHub ==
  (pc.phase = "done" /\ pc.params.commercialRatio = 0 /\ pc.params.transitRatio = 0) =>
    CountCells(TheGrid(World), "transit") = 4 * Cardinality(HubPositions(city.gridSize))

(***************************************************************************)
(* C21: generateLayout appends exactly one history snapshot, taken after   *)
(* roads, ring zoning and transit hubs are all placed and equal to the     *)
(* final grid, distribution and stats; the intermediate cleared grid and   *)
(* road-only grid never appear as snapshots.  (While the call runs the     *)
(* history is the one the call found; when it has returned the history is  *)
(* that one followed by one snapshot, equal to the city it leaves.)        *)
(***************************************************************************)
C21_LayoutPushesOneSnapshot ==
  LET found == Snapshots(Collect(Constructor(city.gridSize))) IN
  /\ pc.phase \in {"call", "roadsH", "roadsV", "diagonal", "rings", "hubs", "finish"} =>
       /\ Snapshots(World) = found
       /\ city.historyIndex = 0
  /\ pc.phase = "done" =>
       /\ Snapshots(World) = found \o <<Content(World)>>
       /\ city.historyIndex = 1

\* a call has returned and left roads, transit hubs and zones on the grid
C21_Witness ==
  /\ pc.phase = "done"
  /\ TheDistribution(World)["road"] > 0
  /\ TheDistribution(World)["transit"] > 0
  /\ TheDistribution(World)["residential"] > 0
  /\ Len(city.history) = 2

C23_AllResidentialScenario ==
  (city.gridSize = 10 /\ TheDistribution(World)["residential"] = 100) =>
    /\ TheStats(World).greenCoverage = 0
    /\ TheStats(World).transitScore = 0
    /\ TheStats(World).airQuality = 60

(***************************************************************************)
(* C23, amended: a gridSize = 10 city whose 100 cells are all residential  *)
(* has greenCoverage = 0, transitScore = 20 (50 less 30 times the          *)
(* residential ratio, which is 1) and airQuality = 60, and calculateStats  *)
(* leaves them so.                                                         *)
(***************************************************************************)
C23_AllResidentialScores ==
  (city.gridSize = 10 /\ TheDistribution(World)["residential"] = 100) =>
    /\ TheStats(World).greenCoverage = 0
    /\ TheStats(World).transitScore = 20
    /\ TheStats(World).airQuality = 60
    /\ TheStats(calculateStats(World)) = TheStats(World)

\* the 10x10 city has been filled with residential zones
C23_Witness ==
  /\ city.gridSize = 10
  /\ ret.op = "fillArea"
  /\ CountCells(TheGrid(World), "residential") = 100
  /\ TheDistribution(World)["residential"] = 100

(***************************************************************************)
(* C24: in every reachable state whose distribution counts are             *)
(* non-negative and sum to gridSize^2, transitScore, walkability,          *)
(* airQuality, energyEfficiency, greenCoverage and sustainabilityScore all *)
(* lie in [0, 100].                                                        *)
(***************************************************************************)
C24_BoundedIndicators ==
  LET d == TheDistribution(World)
      s == TheStats(World)
  IN  ((\A t \in ZoneTypes : d[t] >= 0) /\ Weighted(d, Ones) = city.gridSize * city.gridSize) =>
        \A k \in {"transitScore", "walkability", "airQuality", "energyEfficiency",
                  "greenCoverage", "sustainabilityScore"} :
          0 <= s[k] /\ s[k] <= 100

\* a city of transit zones only: the transit score before clamping is 250
C24_Witness ==
  /\ ret.op = "setZone"
  /\ TheDistribution(World)["transit"] = city.gridSize * city.gridSize
  /\ TheStats(World).transitScore = 100
  /\ TheStats(World).walkability = 100

(***************************************************************************)
(* C25: a newly constructed city (from a size class or from a numeric      *)
(* gridSize) has every cell empty, distribution.empty = gridSize^2 with    *)
(* every other count 0, exactly one history snapshot and historyIndex 0,   *)
(* so that undo() and redo() both return false.                            *)
(***************************************************************************)
C25_NewCityIsEmpty ==
  ret.op = "constructor" =>
    LET n == city.gridSize
        g == TheGrid(World)
        d == TheDistribution(World)
    IN  /\ Len(g) = n
        /\ \A y \in 1..n : Len(g[y]) = n /\ \A x \in 1..n : g[y][x].type = "empty"
        /\ d["empty"] = n * n
        /\ \A t \in ZoneTypes \ {"empty"} : d[t] = 0
        /\ Len(city.history) = 1
        /\ city.historyIndex = 0
        /\ undo(World).ret = "false"
        /\ redo(World).ret = "false"

\* a city made from the size key small
C25_Witness ==
  /\ ret.op = "constructor"
  /\ city.size = "small"
  /\ city.gridSize = CITY_SIZES["small"].grid
  /\ CountCells(TheGrid(World), "empty") = city.gridSize * city.gridSize
  /\ Len(city.history) = 1

(***************************************************************************)
(* C26: clear() sets every cell to empty and the distribution to           *)
(* empty = gridSize^2 with every other count 0, and leaves history and     *)
(* historyIndex unchanged.                                                 *)
(***************************************************************************)
C26_ClearFrame ==
  LET w == World
      r == clear(w)
      n == w.city.gridSize
      g == TheGrid(r)
      d == TheDistribution(r)
  IN  /\ ~r.exc
      /\ r.city.gridSize = n
      /\ Len(g) = n
      /\ \A y \in 1..n : Len(g[y]) = n /\ \A x \in 1..n : g[y][x].type = "empty"
      /\ d["empty"] = n * n
      /\ \A t \in ZoneTypes \ {"empty"} : d[t] = 0
      /\ r.city.history = w.city.history
      /\ Snapshots(r) = Snapshots(w)
      /\ r.city.historyIndex = w.city.historyIndex

\* clear() has emptied a city whose latest snapshot, the third or a later
\* one, shows residential zones
C26_Witness ==
  /\ ret.op = "clear"
  /\ city.historyIndex >= 2
  /\ SnapshotAt(World, city.historyIndex).distribution["residential"] > 0
  /\ TheDistribution(World)["empty"] = city.gridSize * city.gridSize
  /\ CountCells(TheGrid(World), "empty") = city.gridSize * city.gridSize

(***************************************************************************)
(* C27: applying an unknown scenario identifier, or setting a target year  *)
(* outside the supported range, is rejected and leaves the city's grid,    *)
(* distribution, stats and history unchanged (and the simulator's year and *)
(* scenario with them), in every state in which a baseline is saved.      *)
(***************************************************************************)
C27_RejectedSimulationInput ==
  LET a == App
      Untouched(r) ==
        /\ ~r.w.exc
        /\ Content(r.w) = Content(a.w)
        /\ r.w.city.history = a.w.city.history
        /\ Snapshots(r.w) = Snapshots(a.w)
        /\ r.w.city.historyIndex = a.w.city.historyIndex
        /\ r.sim = a.sim
  IN  sim.baseline # <<>> =>
        /\ Untouched(applyScenario(a, "unknown_scenario"))
        /\ \A year \in {BaselineYear - 1, FinalYear + 1, FinalYear + 50} :
             /\ Untouched(timeSliderInput(a, year))
             /\ timeSliderInput(a, year).w.ret = "false"

\* the time slider was given a year outside the supported range while the
\* city showed the projection of a later year under a scenario
C27_Witness ==
  /\ ret = [op |-> "setTargetYear", value |-> "false"]
  /\ sim.baseline # <<>>
  /\ sim.year > BaselineYear
  /\ sim.scenario # NoScenario
  /\ TheDistribution(World) # sim.baseline[1].distribution

(***************************************************************************)
(* C28: after saveBaseline(), and after any sequence of applyScenario and  *)
(* setTargetYear calls, setTargetYear(baselineYear) leaves the city's      *)
(* statistics equal to the baseline statistics.                            *)
(***************************************************************************)
C28_BaselineYearReproducesBaseline ==
  sim.baseline # <<>> =>
    LET r == timeSliderInput(App, BaselineYear) IN
    /\ ~r.w.exc
    /\ r.w.ret = "true"
    /\ TheStats(r.w) = sim.baseline[1].stats

\* the slider is back on the baseline year after a scenario was applied
\* and a later year was shown
C28_Witness ==
  /\ ret = [op |-> "setTargetYear", value |-> "true"]
  /\ edits >= 3
  /\ sim.year = BaselineYear
  /\ sim.scenario # NoScenario
  /\ TheStats(World) = sim.baseline[1].stats
  /\ TheDistribution(World)["road"] > 0

(***************************************************************************)
(* C29: every bounded score maps to exactly one rating: excellent if       *)
(* score >= 80, good if 60 <= score < 80, fair if 40 <= score < 60, poor   *)
(* otherwise; the report generator's getRating applies exactly these       *)
(* tiers.                                                                  *)
(***************************************************************************)
C29_RatingTiers ==
  ret.op = "getRating" =>
    LET score == ret.score
        rating == ret.value
    IN  /\ rating \in {"excellent", "good", "fair", "poor"}
        /\ rating = "excellent" <=> score >= 80
        /\ rating = "good" <=> (60 <= score /\ score < 80)
        /\ rating = "fair" <=> (40 <= score /\ score < 60)
        /\ rating = "poor" <=> score < 40

\* the score 80, the lowest one rated excellent, has been rated
C29_Witness ==
  /\ ret.op = "getRating"
  /\ ret.score = 80
  /\ ret.value = "excellent"

(***************************************************************************)
(* C30: with n >= 2 transit cells on the grid, the transit-route edge      *)
(* selection picks exactly n - 1 edges that connect all transit cells      *)
(* without a cycle and whose total Euclidean length is minimal among all   *)
(* spanning trees of the transit cells.  (A spanning tree has minimal      *)
(* total length exactly when no pair of cells outside it is closer than an *)
(* edge of the tree's path between the two: the two are then connected by  *)
(* tree edges no longer than their own distance.)                          *)
(***************************************************************************)
\* the hubs that the edges of tree whose dist is at most limit connect to
\* the hubs of set, for n hubs
RECURSIVE Connected(_, _, _, _)
Connected(set, tree, limit, n) ==
  LET more == set \cup {h \in 1..n :
                          \E k \in 1..Len(tree) :
                            /\ tree[k].dist <= limit
                            /\ \/ tree[k].i = h /\ tree[k].j \in set
                               \/ tree[k].j = h /\ tree[k].i \in set}
  IN  IF more = set THEN set ELSE Connected(more, tree, limit, n)

C30_RoutesAreMinimumSpanningTree ==
  LET hubs == TransitHubs(TheGrid(World))
      n == Len(hubs)
      tree == drawTransitRoutes(World)
      all == HubEdges(hubs)
      longest == 2 * city.gridSize * city.gridSize
  IN  n >= 2 =>
        /\ Len(tree) = n - 1
        /\ \A k \in 1..Len(tree) :
             /\ tree[k].i \in 1..n /\ tree[k].j \in 1..n /\ tree[k].i # tree[k].j
             /\ tree[k].dist = all[tree[k].idx].dist
             /\ tree[k].i = all[tree[k].idx].i /\ tree[k].j = all[tree[k].idx].j
        \* n - 1 edges that connect all n cells: a tree, so without a cycle
        /\ Connected({1}, tree, longest, n) = 1..n
        /\ \A k \in 1..Len(all) :
             all[k].j \in Connected({all[k].i}, tree, all[k].dist, n)

\* routes were selected for four transit cells, two pairs of which are at
\* the same distance, and not every pair is joined by a route
C30_Witness ==
  /\ ret.op = "drawTransitRoutes"
  /\ Len(TransitHubs(TheGrid(World))) = 4
  /\ Len(ret.value) = 3
  /\ ret.value[1].dist = ret.value[2].dist
  /\ ret.value[3].dist > ret.value[1].dist

(***************************************************************************)
(* C31: a record held by CityStorage is independent of the live City:      *)
(* after save(city), later setZone calls on the city do not change the     *)
(* stored record's grid, and after importData(load(id)) edits to the city  *)
(* do not change the stored record, so each stored record's grid and       *)
(* distribution stay mutually consistent.                                  *)
(***************************************************************************)
\* the stored records with the contents of their objects
StoredRecords == Serialised(heap, app.cities)

RecordIsConsistent(r) ==
  \A t \in ZoneTypes : Count(r.distribution, t) = CountCells(r.grid, t)

C31_StoredRecordsAreIndependent ==
  [][ /\ ret'.op = "setZone" => StoredRecords' = StoredRecords
      /\ \A i \in 1..Len(StoredRecords') : RecordIsConsistent(StoredRecords'[i]) ]_vars

(***************************************************************************)
(* C32: after each of generateCity, loadSampleCity and loadSavedCity       *)
(* completes, the app's renderer, metrics and simulator all operate on the *)
(* same CityModel instance as app.city, also when the operation replaced   *)
(* the City because the grid size differed.                                *)
(***************************************************************************)
C32_OneCityInstance ==
  ret.op \in {"generateCity", "loadSampleCity", "loadSavedCity"} =>
    /\ app.renderer = app.instance
    /\ app.metrics = app.instance
    /\ app.simulator = app.instance

(***************************************************************************)
(* C33: AIGenerator.isGenerating is true at every moment at which at least *)
(* one generate() call is still pending, including when two or more calls  *)
(* overlap, and false when none is pending.                                *)
(***************************************************************************)
C33_IsGeneratingWhilePending == app.isGenerating <=> app.pending # <<>>

(***************************************************************************)
(* C34: for any interleaving of Play/Pause clicks and timer firings, at    *)
(* most one pending step timer of playSimulation exists at a time, so the  *)
(* simulated year advances by at most one per 500 ms tick.                 *)
(***************************************************************************)
C34_AtMostOneStepTimer == app.timers <= 1

(***************************************************************************)
(* C39: once playSimulation is started from a year below 2050 and is not   *)
(* paused or reset, the year increases by exactly one per step until it    *)
(* reaches 2050, at which point isSimulating becomes false and no further  *)
(* setTargetYear call is made; the played year never exceeds 2050.         *)
(***************************************************************************)
\* the closure step runs with isSimulating true in this transition
StepRuns ==
  \/ ret'.op = "step" /\ app.isSimulating
  \/ ret'.op = "playSimulation" /\ ~app.isSimulating

\* one run of step: below FinalYear the year moves up by one and
\* setTargetYear is called with it; from FinalYear on the play ends and
\* nothing is called or changed
StepIsRight ==
  IF app.slider < FinalYear
  THEN /\ app'.slider = app.slider + 1
       /\ app'.slider <= FinalYear
       /\ ret'.value = "true"
       /\ sim'.year = app'.slider
       /\ app'.isSimulating
       /\ app'.timers >= 1
  ELSE /\ ~app'.isSimulating
       /\ ret'.value = "undefined"
       /\ app'.slider = app.slider
       /\ sim' = sim
       /\ city' = city /\ heap' = heap

C39_PlayRunsToFinalYear ==
  /\ [][StepRuns => StepIsRight]_vars
  /\ [](app.isSimulating => app.slider <= FinalYear /\ app.timers >= 1)
  /\ (app.isSimulating ~> ~app.isSimulating)
  /\ [][app.isSimulating /\ ~app'.isSimulating /\ ret'.op = "step"
          => app.slider = FinalYear]_vars

\* the play has run into FinalYear and ended there, with no timer left
C39_Witness ==
  /\ ret.op = "step"
  /\ ~app.isSimulating
  /\ app.slider = FinalYear
  /\ sim.year = FinalYear
  /\ app.timers = 0
  /\ edits = 1

(***************************************************************************)
(* C35: after generateLayout, for every outcome of the random draws, a     *)
(* cell that is neither on the road skeleton nor in a transit hub has a    *)
(* type allowed for its ring: normalized distance > 0.9 gives green,       *)
(* industrial or empty; > 0.6 gives residential, green or empty; > 0.3     *)
(* gives residential, commercial, green or empty; otherwise commercial,    *)
(* transit, green or empty.                                                *)
(***************************************************************************)
\* whether the normalized distance of cell (x, y) from the center, which is
\* sqrt((x - center)^2 + (y - center)^2) / (center * 1.4), is above
\* tenths / 10
NormalizedDistAbove(n, x, y, tenths) ==
  LET center == n \div 2
      distSq == (x - center) * (x - center) + (y - center) * (y - center)
  IN  10000 * distSq > (tenths * 14 * center) * (tenths * 14 * center)

AllowedTypes(n, x, y) ==
  IF NormalizedDistAbove(n, x, y, 9) THEN {"green", "industrial", "empty"}
  ELSE IF NormalizedDistAbove(n, x, y, 6) THEN {"residential", "green", "empty"}
  ELSE IF NormalizedDistAbove(n, x, y, 3) THEN {"residential", "commercial", "green", "empty"}
  ELSE {"commercial", "transit", "green", "empty"}

\* the cells that are neither on the road skeleton nor in a transit hub
RingCells(n) ==
  LET roads == RoadCells(n)
      hubs == HubCells(n)
  IN  { c \in (0..(n - 1)) \X (0..(n - 1)) :
          /\ \A k \in 1..Len(roads) : roads[k] # c
          /\ \A k \in 1..Len(hubs) : hubs[k] # c }

C35_RingCellsHaveRingTypes ==
  pc.phase = "done" =>
    \A c \in RingCells(city.gridSize) :
      Cell(TheGrid(World), c[1], c[2]).type \in AllowedTypes(city.gridSize, c[1], c[2])

\* a layout in which ring cells of all four rings are zoned, with every
\* type a ring allows but empty somewhere
C35_Witness ==
  /\ pc.phase = "done"
  /\ LET n == city.gridSize
         Has(tenthsAbove, tenthsUpTo, type) ==
           \E c \in RingCells(n) :
             /\ NormalizedDistAbove(n, c[1], c[2], tenthsAbove)
             /\ ~NormalizedDistAbove(n, c[1], c[2], tenthsUpTo)
             /\ Cell(TheGrid(World), c[1], c[2]).type = type
     IN  /\ Has(9, 100, "industrial") /\ Has(9, 100, "green")
         /\ Has(6, 9, "residential") /\ Has(6, 9, "green")
         /\ Has(3, 6, "commercial")
         /\ \E c \in RingCells(n) :
              /\ ~NormalizedDistAbove(n, c[1], c[2], 3)
              /\ Cell(TheGrid(World), c[1], c[2]).type \in {"commercial", "transit", "green"}

(***************************************************************************)
(* C36: for a fixed sequence of random draws, generateLayout produces the  *)
(* same grid for any two parameter objects that differ only in             *)
(* industrialRatio and roadRatio: these two ratios have no effect on the   *)
(* generated layout.                                                       *)
(***************************************************************************)
C36_IndustrialAndRoadRatioHaveNoEffect ==
  [][ ret'.op = "generateLayout" /\ pc'.phase = "done" =>
        \A industrialRatio \in IndustrialInputs, roadRatio \in RoadInputs :
          LET other == [pc.params EXCEPT !.industrialRatio = industrialRatio,
                                         !.roadRatio = roadRatio]
              r == Collect(generateLayout(World, other, pc.rnd))
          IN  /\ r.heap.grid[r.city.grid] = heap'.grid[city'.grid]
              /\ r.heap.dist[r.city.distribution] = heap'.dist[city'.distribution] ]_vars

\* a layout with industrial cells was generated from a parameter object
\* with industrialRatio and roadRatio above 0
C36_Witness ==
  /\ pc.phase = "done"
  /\ pc.params.industrialRatio > 0 /\ pc.params.roadRatio > 0
  /\ TheDistribution(World)["industrial"] > 0
  /\ TheDistribution(World)["road"] > 0
  /\ TheDistribution(World)["residential"] > 0

(***************************************************************************)
(* C37: starting from at most 10 stored records with pairwise distinct     *)
(* ids, after any sequence of CityStorage save, delete and clearAll the    *)
(* store holds at most 10 records with pairwise distinct ids: saving an    *)
(* already-stored id replaces that record in place, and saving a new id    *)
(* when 10 are stored removes the earliest-inserted record.                *)
(***************************************************************************)
\* the ids of the stored records, in the order of the store
IdsOf(cities) == [i \in 1..Len(cities) |-> cities[i].id] \o <<>>

SaveIsRight ==
  LET old == app.cities
      new == app'.cities
      id == city.id
      at == findIndex(old, id)
  IN  IF at > 0
      THEN \* replaced in place: the other records are the ones there were
           /\ IdsOf(new) = IdsOf(old)
           /\ \A i \in 1..Len(old) : i # at => new[i] = old[i]
           /\ new[at].savedAt = app.now
      ELSE IF Len(old) >= MAX_STORED_CITIES
      THEN \* the earliest-inserted record goes, the new one comes last
           /\ SubSeq(new, 1, Len(new) - 1) = Tail(old)
           /\ new[Len(new)].id = id
      ELSE /\ SubSeq(new, 1, Len(new) - 1) = old
           /\ new[Len(new)].id = id

C37_StoreIsCapped ==
  /\ [](/\ Len(app.cities) <= MAX_STORED_CITIES
        /\ \A i, j \in 1..Len(app.cities) :
             app.cities[i].id = app.cities[j].id => i = j)
  /\ [][ret'.op = "saveCurrentCity" => SaveIsRight]_vars

\* a save into the full store has removed the oldest record, and a save of
\* a loaded city has replaced the record in the middle of the store
C37_Witness ==
  /\ ret.op = "saveCurrentCity"
  /\ Len(app.cities) = MAX_STORED_CITIES
  /\ app.cities[1].id = 0 - 2000
  /\ app.cities[MAX_STORED_CITIES].id = 1
  /\ \E i \in 2..(MAX_STORED_CITIES - 1) : app.cities[i].savedAt > 0

\* C38: a mouse-down or drag with a zone tool that changes a cell sets
\* city.hasUnsavedChanges; the mouse-up that finds it set draws the dashboard
\* from the city as it then is and clears it, so after every mouse-up the
\* dashboard shows the city's distribution
C38_StrokeRefreshesDashboard ==
  /\ [][ /\ ( /\ ret'.op \in {"onCanvasMouseDown", "onCanvasMouseMove"}
              /\ TheDistribution(World)' # TheDistribution(World) )
            => app'.hasUnsavedChanges
         /\ (ret'.op = "onCanvasMouseUp" /\ app.hasUnsavedChanges)
            => (~app'.hasUnsavedChanges /\ app'.dashboard = TheDistribution(World)') ]_vars
  /\ [](ret.op = "onCanvasMouseUp" => app.dashboard = TheDistribution(World))

====
